---- MODULE Spec2Model ----
(***************************************************************************)
(* A model of the MOAB storage kernel as driven by Core (src/src/Core.cpp):*)
(* handle encoding, Range, the per-type sequence directory, the tag server *)
(* and the Core operations that tie them together.                          *)
(***************************************************************************)
EXTENDS Integers, Sequences, FiniteSets, TLC

VARIABLES
    hnd,        \* handle encoding: the (type,id) pair under conversion and its results
    rng,        \* Range: the interval list of the Range under operation
    members,    \* Range: the handle values inserted and not erased since (history)
    rop,        \* Range: the last operation applied
    entityMap,  \* SequenceManager: per entity type, the EntitySequences sorted by start
    tagTable,   \* TagServer: tag handle -> TagInfo of every defined tag
    tagData,    \* TagServer: tag handle -> stored values (sparse map / dense slots)
    meshSets,   \* MeshSetSequence: set handle -> contents, parent and child links
    ret,        \* the last Core call: operation, arguments, return code, output
    created,    \* handles issued by a create call and not deleted since (history)
    retired,    \* handles deleted and not issued again since (history)
    stale,      \* the tag values each handle held when it was last deleted (history)
    written,    \* tag handle -> values set on created handles and not deleted since (history)
    coords,     \* VertexSequence: vertex handle -> coordinates of every live vertex
    tmp_connect,\* Core::side_number: the static connectivity buffer shared by all callers
    readers,    \* the threads inside a read-only call: position and local variables
    conn,       \* ElementSequence: element handle -> stored connectivity
    adj         \* AEntityFactory: vertex handle -> entities adjacent to the vertex

hvars == <<hnd>>
rvars == <<rng, members, rop>>
dbvars == <<entityMap, tagTable, tagData, meshSets, ret, created, retired, stale, written>>
cvars == <<coords>>
pvars == <<tmp_connect, readers>>
evars == <<conn, adj>>
vars == <<hnd, rng, members, rop, entityMap, tagTable, tagData, meshSets, ret, created, retired, stale,
          written, coords, tmp_connect, readers, conn, adj>>

(***************************************************************************)
(* Bounds of the model                                                      *)
(***************************************************************************)
\* number of bits of an EntityHandle in the model (the build has 32 or 64)
HandleBits == 12
\* largest handle value used by the Range operations
MaxRangeVal == 5
\* longest handle vector collected by one get_adjacencies_union pass
MaxVecLen == 2
\* largest vertex id the sequence manager hands out
MaxId == 3
\* handles of one SequenceData block allocated for single-entity creation
BlockSize == 2
\* tag handles the TagServer can have defined at one time
MaxTags == 2
\* vertices alive at one time in the runs that also define and use tags
MaxTagVerts == 2
\* vertices of the end-to-end scenario
NVerts == 100
\* threads that may be inside a read-only call at one time
NThreads == 2
\* entity sets in the runs that link sets as parents and children
MaxSets == 2

(***************************************************************************)
(* Entity types (MBCN::entityTypeNames) and handle encoding                 *)
(***************************************************************************)
MBVERTEX == 0
MBEDGE == 1
MBENTITYSET == 11
MBMAXTYPE == 12

RECURSIVE Pow2(_)
Pow2(n) == IF n = 0 THEN 1 ELSE 2 * Pow2(n - 1)

RECURSIVE BitsFor(_)
BitsFor(n) == IF n = 0 THEN 0 ELSE 1 + BitsFor(n \div 2)

\* bits of the type field: enough to hold every value up to MBMAXTYPE
MB_TYPE_WIDTH == BitsFor(MBMAXTYPE)
MB_ID_WIDTH == HandleBits - MB_TYPE_WIDTH
MB_END_ID == Pow2(MB_ID_WIDTH) - 1
MB_START_ID == 1

\* the weight of the type field inside a handle
IdRadix == Pow2(MB_ID_WIDTH)

EntityTypes == MBVERTEX .. (MBMAXTYPE - 1)

\* make_handle: [handle, err]; the zero handle and err = 1 for an id beyond the
\* id field or a type outside the enumeration
CREATE_HANDLE(type, id) ==
    IF id > MB_END_ID \/ id < 0 \/ type \notin EntityTypes
    THEN [handle |-> 0, err |-> 1]
    ELSE [handle |-> type * IdRadix + id, err |-> 0]

TYPE_FROM_HANDLE(h) == h \div IdRadix

ID_FROM_HANDLE(h) == h % IdRadix

type_from_handle_shifted(handle) == handle \div (2 * IdRadix)

\* Core::type_from_handle
type_from_handle(handle) == TYPE_FROM_HANDLE(handle)

\* Core::id_from_handle
id_from_handle(handle) == ID_FROM_HANDLE(handle)

(***************************************************************************)
(* Range: a sorted list of disjoint, non-adjacent closed intervals          *)
(***************************************************************************)
Min(a, b) == IF a < b THEN a ELSE b

Max(a, b) == IF a > b THEN a ELSE b

RangeInsertNoAdjacentMerge(r, lo, hi) ==
    LET before == SelectSeq(r, LAMBDA p : p[2] < lo)
        after == SelectSeq(r, LAMBDA p : p[1] > hi)
        mid == SelectSeq(r, LAMBDA p : ~(p[2] < lo) /\ ~(p[1] > hi))
        first == IF mid = <<>> THEN lo ELSE Min(lo, mid[1][1])
        second == IF mid = <<>> THEN hi ELSE Max(hi, mid[Len(mid)][2])
    IN IF lo > hi THEN r ELSE before \o <<(<<first, second>>)>> \o after

\* Range::insert(lo,hi): intervals that overlap or touch [lo,hi] are coalesced
\* with it; an empty interval (lo > hi) inserts nothing
RangeInsert(r, lo, hi) ==
    LET before == SelectSeq(r, LAMBDA p : p[2] + 1 < lo)
        after == SelectSeq(r, LAMBDA p : p[1] > hi + 1)
        mid == SelectSeq(r, LAMBDA p : ~(p[2] + 1 < lo) /\ ~(p[1] > hi + 1))
        first == IF mid = <<>> THEN lo ELSE Min(lo, mid[1][1])
        second == IF mid = <<>> THEN hi ELSE Max(hi, mid[Len(mid)][2])
    IN IF lo > hi THEN r ELSE before \o <<(<<first, second>>)>> \o after

\* what Range::erase(h) leaves of one interval
ErasePiece(p, h) ==
    IF h < p[1] \/ h > p[2] THEN <<p>>
    ELSE IF p[1] = p[2] THEN <<>>
    ELSE IF h = p[1] THEN <<(<<p[1] + 1, p[2]>>)>>
    ELSE IF h = p[2] THEN <<(<<p[1], p[2] - 1>>)>>
    ELSE <<(<<p[1], h - 1>>), (<<h + 1, p[2]>>)>>

RECURSIVE RangeErase(_, _)
\* Range::erase(h)
RangeErase(r, h) ==
    IF r = <<>> THEN <<>> ELSE ErasePiece(Head(r), h) \o RangeErase(Tail(r), h)

RECURSIVE RangeSize(_)
\* Range::size(): the sum of the interval lengths
RangeSize(r) ==
    IF r = <<>> THEN 0 ELSE (Head(r)[2] - Head(r)[1] + 1) + RangeSize(Tail(r))

\* Range::empty()
RangeEmpty(r) == r = <<>>

\* the handles a Range holds
RangeSet(r) == UNION {r[i][1] .. r[i][2] : i \in 1 .. Len(r)}

\* Range::find / contains
RangeContains(r, h) == \E i \in 1 .. Len(r) : r[i][1] <= h /\ h <= r[i][2]

RECURSIVE RangeFromSet(_)
\* a Range filled by inserting the handles of a set one by one (range_inserter)
RangeFromSet(S) ==
    IF S = {} THEN <<>>
    ELSE LET h == CHOOSE x \in S : \A y \in S : x <= y
         IN RangeInsert(RangeFromSet(S \ {h}), h, h)

\* intersect(a, b)
RangeIntersect(a, b) == RangeFromSet(RangeSet(a) \cap RangeSet(b))

RangeCanonical(r) ==
    /\ \A i \in 1 .. Len(r) : r[i][1] <= r[i][2]
    /\ \A i \in 1 .. (Len(r) - 1) : r[i][2] + 1 < r[i + 1][1]

RECURSIVE SortedInsert(_, _)
SortedInsert(s, x) ==
    IF s = <<>> THEN <<x>>
    ELSE IF x <= Head(s) THEN <<x>> \o s
    ELSE <<Head(s)>> \o SortedInsert(Tail(s), x)

RECURSIVE Sort(_)
\* std::sort on a vector of handles
Sort(v) == IF v = <<>> THEN <<>> ELSE SortedInsert(Sort(Tail(v)), Head(v))

RECURSIVE RunEnd(_, _, _)
\* the inner loop of get_adjacencies_union: from position ti, advance while the
\* next value is at most `gap` above the run's last value; [second, next ti]
RunEnd(v, ti, gap) ==
    IF ti + 1 <= Len(v) /\ v[ti + 1] - v[ti] <= gap
    THEN RunEnd(v, ti + 1, gap)
    ELSE ti

RECURSIVE AdjRunsFrom(_, _, _)
AdjRunsFrom(v, ti, gap) ==
    IF ti > Len(v) THEN <<>>
    ELSE LET last == RunEnd(v, ti, gap)
         IN <<(<<v[ti], v[last]>>)>> \o AdjRunsFrom(v, last + 1, gap)

AdjRunsWideGap(v) == AdjRunsFrom(v, 1, 2)

\* get_adjacencies_union: the [first,second] runs of a sorted handle vector
AdjRuns(v) == AdjRunsFrom(v, 1, 1)

RECURSIVE InsertRuns(_, _)
InsertRuns(r, runs) ==
    IF runs = <<>> THEN r
    ELSE InsertRuns(RangeInsert(r, Head(runs)[1], Head(runs)[2]), Tail(runs))

RangeVals == 1 .. MaxRangeVal

\* the handle vectors get_adjacencies_union collects, in any order, with repeats
AdjVectors == UNION {[1 .. n -> RangeVals] : n \in 1 .. MaxVecLen}

(***************************************************************************)
(* Error codes (ErrorCode)                                                  *)
(***************************************************************************)
MB_SUCCESS == "MB_SUCCESS"
MB_FAILURE == "MB_FAILURE"
MB_ENTITY_NOT_FOUND == "MB_ENTITY_NOT_FOUND"
MB_TYPE_OUT_OF_RANGE == "MB_TYPE_OUT_OF_RANGE"
MB_TAG_NOT_FOUND == "MB_TAG_NOT_FOUND"
MB_ALREADY_ALLOCATED == "MB_ALREADY_ALLOCATED"
MB_VARIABLE_DATA_LENGTH == "MB_VARIABLE_DATA_LENGTH"
MB_MEMORY_ALLOCATION_FAILED == "MB_MEMORY_ALLOCATION_FAILED"

(***************************************************************************)
(* EntitySequence, TypeSequenceManager, SequenceManager                     *)
(* A sequence is [start, end, ds, de]: the live handles start..end inside   *)
(* the SequenceData block ds..de.                                           *)
(***************************************************************************)
DBTypes == {MBVERTEX, MBEDGE, MBENTITYSET}

\* ids the bounded database lets one type use: vertices up to MaxId, one
\* element, one set
MaxIdOf(t) == IF t = MBVERTEX THEN MaxId ELSE MB_START_ID

H(t, id) == CREATE_HANDLE(t, id).handle

\* the handles of type t with ids up to lim
HandlesUpTo(t, lim) == {H(t, i) : i \in MB_START_ID .. lim}

HandlesOf(t) == HandlesUpTo(t, MaxIdOf(t))

DBHandles == UNION {HandlesOf(t) : t \in DBTypes}

\* the null EntitySequence pointer
NullSeq == [start |-> 0, end |-> 0, ds |-> 0, de |-> 0]

\* TypeSequenceManager::lower_bound: the first sequence whose end is not below h
lower_bound(tsm, h) ==
    LET S == {i \in 1 .. Len(tsm) : tsm[i].end >= h}
    IN IF S = {} THEN Len(tsm) + 1 ELSE CHOOSE i \in S : \A j \in S : i <= j

\* TypeSequenceManager::find
TSM_find(tsm, h) ==
    LET i == lower_bound(tsm, h)
    IN IF i > Len(tsm) \/ h < tsm[i].start
       THEN [code |-> MB_ENTITY_NOT_FOUND, seq |-> NullSeq]
       ELSE [code |-> MB_SUCCESS, seq |-> tsm[i]]

\* SequenceManager::find on a given directory
SM_find_in(em, h) ==
    IF TYPE_FROM_HANDLE(h) \in DBTypes
    THEN TSM_find(em[TYPE_FROM_HANDLE(h)], h)
    ELSE [code |-> MB_ENTITY_NOT_FOUND, seq |-> NullSeq]

\* SequenceManager::find
SM_find(h) == SM_find_in(entityMap, h)

RECURSIVE TSM_insert(_, _)
\* TypeSequenceManager::insert: keeps the list ordered by start handle
TSM_insert(tsm, seq) ==
    IF tsm = <<>> THEN <<seq>>
    ELSE IF seq.start < Head(tsm).start THEN <<seq>> \o tsm
    ELSE <<Head(tsm)>> \o TSM_insert(Tail(tsm), seq)

TSM_remove(tsm, i) == SubSeq(tsm, 1, i - 1) \o SubSeq(tsm, i + 1, Len(tsm))

\* the splitting constructor EntitySequence(split_from, here): the part before
\* `here` stays in place, the new sequence takes `here` and after; same data
EntitySequenceSplit(seq, here) ==
    <<[seq EXCEPT !.end = here - 1], [seq EXCEPT !.start = here]>>

split_after(seq, here) == EntitySequenceSplit(seq, here + 1)

\* SweptElementSeq::split (every sequence kind splits through its constructor)
split(seq, here) == EntitySequenceSplit(seq, here)

pop_front(seq) == [seq EXCEPT !.start = @ + 1]

pop_back(seq) == [seq EXCEPT !.end = @ - 1]

\* EntitySequence::erase(h) inside its directory: shrink at an end, split in the
\* interior, destroy the sequence when h was its whole live range
TSM_erase(tsm, h) ==
    LET i == lower_bound(tsm, h)
    IN IF i > Len(tsm) \/ h < tsm[i].start
       THEN [code |-> MB_ENTITY_NOT_FOUND, tsm |-> tsm]
       ELSE LET s == tsm[i]
            IN [code |-> MB_SUCCESS,
                tsm |->
                  IF s.start = s.end THEN TSM_remove(tsm, i)
                  ELSE IF h = s.start THEN [tsm EXCEPT ![i] = pop_front(s)]
                  ELSE IF h = s.end THEN [tsm EXCEPT ![i] = pop_back(s)]
                  ELSE LET p == split(s, h)
                       IN TSM_insert([tsm EXCEPT ![i] = p[1]], pop_front(p[2]))]

\* SequenceManager::delete_entity
SM_delete_entity(em, h) ==
    IF TYPE_FROM_HANDLE(h) \notin DBTypes
    THEN [code |-> MB_ENTITY_NOT_FOUND, em |-> em]
    ELSE LET r == TSM_erase(em[TYPE_FROM_HANDLE(h)], h)
         IN [code |-> r.code, em |-> [em EXCEPT ![TYPE_FROM_HANDLE(h)] = r.tsm]]

RECURSIVE MergeAdjacent(_)
\* check_merge_next: two sequences of one SequenceData that became contiguous
\* are one sequence
MergeAdjacent(tsm) ==
    IF Len(tsm) < 2 THEN tsm
    ELSE IF tsm[1].end + 1 = tsm[2].start /\ tsm[1].ds = tsm[2].ds
         THEN MergeAdjacent(<<[tsm[1] EXCEPT !.end = tsm[2].end]>> \o SubSeq(tsm, 3, Len(tsm)))
         ELSE <<tsm[1]>> \o MergeAdjacent(Tail(tsm))

\* handles covered by some SequenceData block of the directory
BlockHandles(tsm) == UNION {tsm[i].ds .. tsm[i].de : i \in 1 .. Len(tsm)}

LiveHandles(tsm) == UNION {tsm[i].start .. tsm[i].end : i \in 1 .. Len(tsm)}

\* sequences that can grow by one handle at their end / start inside their block
BackSlots(tsm) ==
    {i \in 1 .. Len(tsm) :
        /\ tsm[i].end < tsm[i].de
        /\ (i = Len(tsm) \/ tsm[i + 1].start > tsm[i].end + 1)}

FrontSlots(tsm) ==
    {i \in 1 .. Len(tsm) :
        /\ tsm[i].start > tsm[i].ds
        /\ (i = 1 \/ tsm[i - 1].end < tsm[i].start - 1)}

\* handles of type t, with ids up to lim, outside every SequenceData block
FreeHandles(t, tsm, lim) == HandlesUpTo(t, lim) \ BlockHandles(tsm)

RECURSIVE RunFrom(_, _, _)
\* the last handle of the free run that starts at s, at most n handles long
RunFrom(F, s, n) == IF n > 1 /\ (s + 1) \in F THEN RunFrom(F, s + 1, n - 1) ELSE s

\* a fresh SequenceData block for one new entity: the lowest free handles
NewBlockChoice(t, tsm, lim) ==
    LET F == FreeHandles(t, tsm, lim)
    IN IF F = {} THEN {}
       ELSE LET s == CHOOSE x \in F : \A y \in F : x <= y
                e == RunFrom(F, s, BlockSize)
            IN {[handle |-> s,
                 tsm |-> TSM_insert(tsm, [start |-> s, end |-> s, ds |-> s, de |-> e])]}

\* SequenceManager: the ways one new entity of type t can be placed, each with
\* the resulting directory; extending an existing SequenceData is preferred to
\* allocating a new block; no way at all is "id space exhausted"
SM_create_choices(t, tsm, lim) ==
    LET ext == {[handle |-> tsm[i].end + 1,
                 tsm |-> MergeAdjacent([tsm EXCEPT ![i] = [@ EXCEPT !.end = @ + 1]])]
                    : i \in BackSlots(tsm)}
               \cup
               {[handle |-> tsm[i].start - 1,
                 tsm |-> MergeAdjacent([tsm EXCEPT ![i] = [@ EXCEPT !.start = @ - 1]])]
                    : i \in FrontSlots(tsm)}
    IN IF ext # {} THEN ext ELSE NewBlockChoice(t, tsm, lim)

\* allocate_block(type, count, start_id_hint): count contiguous free handles,
\* at the hint when that run is free, else at the lowest free run
SM_create_block(t, tsm, count, hint, lim) ==
    LET F == FreeHandles(t, tsm, lim)
        ok(s) == \A k \in 0 .. (count - 1) : (s + k) \in F
        S == {s \in F : ok(s)}
    IN IF count < 1 \/ S = {} THEN [code |-> MB_MEMORY_ALLOCATION_FAILED, start |-> 0, tsm |-> tsm]
       ELSE LET s == IF H(t, hint) \in S THEN H(t, hint)
                     ELSE CHOOSE x \in S : \A y \in S : x <= y
            IN [code |-> MB_SUCCESS, start |-> s,
                tsm |-> TSM_insert(tsm, [start |-> s, end |-> s + count - 1,
                                         ds |-> s, de |-> s + count - 1])]

\* SequenceManager::get_entities(type): the live handles as a Range
SM_get_entities(em, t) ==
    IF t \in DBTypes THEN RangeFromSet(LiveHandles(em[t])) ELSE <<>>

(***************************************************************************)
(* TagInfo and the TagServer back-ends                                      *)
(* tagData[t] maps the handles that have a stored value to it: the sparse   *)
(* map entry, or the dense array slot of h inside its SequenceData block;   *)
(* a handle outside the domain has no entry / no array or a slot that was   *)
(* never given a value, read as NoValue.                                    *)
(***************************************************************************)
NoValue == 0 - 1

Values == 0 .. 1

\* enum TagType
MB_TAG_BIT == 0
MB_TAG_SPARSE == 1
MB_TAG_DENSE == 2
MB_TAG_MESH == 3
MB_TAG_LAST == MB_TAG_MESH

MB_TYPE_INTEGER == "MB_TYPE_INTEGER"
MB_TYPE_OPAQUE == "MB_TYPE_OPAQUE"
MB_TYPE_BIT == "MB_TYPE_BIT"

NoTag == [name |-> "", size |-> 0, storage |-> MB_TAG_LAST + 1, dtype |-> "", def |-> NoValue]

\* the tags Core::initialize defines, in its order: one int each, no default
DefaultTags ==
    <<[name |-> "MATERIAL_SET_TAG_NAME", size |-> 1, storage |-> MB_TAG_SPARSE,
       dtype |-> MB_TYPE_INTEGER, def |-> NoValue],
      [name |-> "NEUMANN_SET_TAG_NAME", size |-> 1, storage |-> MB_TAG_SPARSE,
       dtype |-> MB_TYPE_INTEGER, def |-> NoValue],
      [name |-> "DIRICHLET_SET_TAG_NAME", size |-> 1, storage |-> MB_TAG_SPARSE,
       dtype |-> MB_TYPE_INTEGER, def |-> NoValue],
      [name |-> "GEOM_DIMENSION_TAG_NAME", size |-> 1, storage |-> MB_TAG_SPARSE,
       dtype |-> MB_TYPE_INTEGER, def |-> NoValue],
      [name |-> "GLOBAL_ID_TAG_NAME", size |-> 1, storage |-> MB_TAG_DENSE,
       dtype |-> MB_TYPE_INTEGER, def |-> NoValue]>>

\* a tag handle carries the storage class of its tag above the id of the tag
\* within that class
TAG_HANDLE_FROM_ID(id, prop) == prop * IdRadix + id
PROP_FROM_TAG_HANDLE(tag_handle) == tag_handle \div IdRadix

\* the number of default tags of a storage class
DefaultCount(prop) ==
    Cardinality({i \in DOMAIN DefaultTags : DefaultTags[i].storage = prop})

\* the tag handles left to the tags the application defines: MaxTags ids of
\* each storage class after those of the default tags
UserTagIds ==
    {TAG_HANDLE_FROM_ID(DefaultCount(prop) + i, prop) :
        prop \in {MB_TAG_SPARSE, MB_TAG_DENSE}, i \in 1 .. MaxTags}

\* the tag handles: those of the default tags and those of the application
TagIds ==
    UNION {{TAG_HANDLE_FROM_ID(i, prop) : i \in 1 .. (DefaultCount(prop) + MaxTags)} :
              prop \in {MB_TAG_BIT, MB_TAG_SPARSE, MB_TAG_DENSE}}

EmptyTagTable == [t \in TagIds |-> NoTag]

NoData == [h \in {} |-> NoValue]

EmptyTagData == [t \in TagIds |-> NoData]

\* the value stored for h, NoValue when there is none
Stored(data, h) == IF h \in DOMAIN data THEN data[h] ELSE NoValue

\* the storage that keeps the slots of f that have a value
Slots(f) == [x \in {y \in DOMAIN f : f[y] # NoValue} |-> f[x]]

\* TagServer::get_tag_info: the TagInfo, or the null pointer (NoTag)
get_tag_info(tt, tag) == IF tag \in TagIds THEN tt[tag] ELSE NoTag

\* TagServer::get_handle(name): 0 when no tag has the name
get_handle(tt, name) ==
    IF \E t \in TagIds : tt[t] # NoTag /\ tt[t].name = name
    THEN CHOOSE t \in TagIds : tt[t] # NoTag /\ tt[t].name = name
    ELSE 0

\* TagServer::add_tag: a name already in the registry is "already allocated";
\* the new tag gets the lowest free id of its storage class
add_tag(tt, name, size, storage, dtype, def) ==
    LET free == {t \in TagIds : PROP_FROM_TAG_HANDLE(t) = storage /\ tt[t] = NoTag}
    IN IF get_handle(tt, name) # 0
       THEN [code |-> MB_ALREADY_ALLOCATED, handle |-> 0, tt |-> tt]
       ELSE IF free = {}
       THEN [code |-> MB_FAILURE, handle |-> 0, tt |-> tt]
       ELSE LET t == CHOOSE x \in free : \A y \in free : x <= y
            IN [code |-> MB_SUCCESS, handle |-> t,
                tt |-> [tt EXCEPT ![t] = [name |-> name, size |-> size,
                                          storage |-> storage, dtype |-> dtype,
                                          def |-> def]]]

\* the block of handle h in directory em (h is live)
BlockOf(em, h) ==
    LET s == SM_find_in(em, h).seq IN s.ds .. s.de

AllLive(em, hs) == \A h \in hs : SM_find_in(em, h).code = MB_SUCCESS

\* dense write of one value: the block's array is allocated on first use, its
\* slots filled with the default; then the slot of h is written
DenseWrite(info, data, em, h, v) ==
    LET slot(x) == IF x = h THEN v
                   ELSE IF x \in BlockOf(em, h) /\ Stored(data, x) = NoValue THEN info.def
                   ELSE Stored(data, x)
    IN Slots([x \in DOMAIN data \cup BlockOf(em, h) |-> slot(x)])

\* sparse write of one value: a map insertion
SparseWrite(data, h, v) ==
    LET slot(x) == IF x = h THEN v ELSE Stored(data, x)
    IN Slots([x \in DOMAIN data \cup {h} |-> slot(x)])

RECURSIVE WriteAll(_, _, _, _, _)
WriteAll(info, data, em, hs, vals) ==
    IF hs = {} THEN data
    ELSE LET h == CHOOSE x \in hs : \A y \in hs : x <= y
             d == IF info.storage = MB_TAG_DENSE
                  THEN DenseWrite(info, data, em, h, vals[h])
                  ELSE SparseWrite(data, h, vals[h])
         IN WriteAll(info, d, em, hs \ {h}, vals)

\* TagServer::set_data over a set of handles; all-or-nothing: one handle that
\* does not resolve fails the call and nothing is written
TS_set_data(tt, td, em, tag, hs, vals) ==
    LET info == get_tag_info(tt, tag)
    IN IF info = NoTag THEN [code |-> MB_TAG_NOT_FOUND, td |-> td]
       ELSE IF ~AllLive(em, hs) THEN [code |-> MB_ENTITY_NOT_FOUND, td |-> td]
       ELSE [code |-> MB_SUCCESS,
             td |-> [td EXCEPT ![tag] = WriteAll(info, td[tag], em, hs, vals)]]

\* the value get_data reads for one live handle: the stored value, else the
\* default, else none
ReadOne(info, data, h) == IF Stored(data, h) # NoValue THEN data[h] ELSE info.def

\* TagServer::get_data over a set of handles
TS_get_data(tt, td, em, tag, hs) ==
    LET info == get_tag_info(tt, tag)
        none == [h \in hs |-> NoValue]
    IN IF info = NoTag THEN [code |-> MB_TAG_NOT_FOUND, out |-> none]
       ELSE IF ~AllLive(em, hs) THEN [code |-> MB_ENTITY_NOT_FOUND, out |-> none]
       ELSE IF \E h \in hs : ReadOne(info, td[tag], h) = NoValue
       THEN [code |-> MB_TAG_NOT_FOUND, out |-> none]
       ELSE [code |-> MB_SUCCESS, out |-> [h \in hs |-> ReadOne(info, td[tag], h)]]

\* what removing the data of one handle leaves in its slot: the sparse entry is
\* erased and the bits are reset, which leaves no value; an allocated dense
\* slot goes back to the default
ClearedSlot(info, v) ==
    IF info.storage = MB_TAG_DENSE /\ v # NoValue THEN info.def ELSE NoValue

TS_reset_data_dense_only(tt, td, h) ==
    [t \in TagIds |->
        IF tt[t] = NoTag \/ h \notin DOMAIN td[t] \/ tt[t].storage # MB_TAG_DENSE THEN td[t]
        ELSE LET slot(x) == IF x = h THEN ClearedSlot(tt[t], td[t][x]) ELSE td[t][x]
             IN Slots([x \in DOMAIN td[t] |-> slot(x)])]

\* TagServer::reset_data(h): purge the data of h for every tag
TS_reset_data(tt, td, h) ==
    [t \in TagIds |->
        IF tt[t] = NoTag \/ h \notin DOMAIN td[t] THEN td[t]
        ELSE LET slot(x) == IF x = h THEN ClearedSlot(tt[t], td[t][x]) ELSE td[t][x]
             IN Slots([x \in DOMAIN td[t] |-> slot(x)])]

ReleaseDeadSlots(tt, td, em) ==
    [t \in TagIds |->
        IF tt[t] # NoTag /\ tt[t].storage = MB_TAG_DENSE
        THEN [x \in {y \in DOMAIN td[t] : AllLive(em, {y})} |-> td[t][x]]
        ELSE td[t]]

\* the dense arrays of a SequenceData go with it when its last sequence goes
ReleaseTagArrays(tt, td, em) ==
    [t \in TagIds |->
        IF tt[t] # NoTag /\ tt[t].storage = MB_TAG_DENSE /\ DOMAIN td[t] # {}
        THEN LET slot(x) == IF x \in BlockHandles(em[TYPE_FROM_HANDLE(x)])
                            THEN td[t][x] ELSE NoValue
             IN Slots([x \in DOMAIN td[t] |-> slot(x)])
        ELSE td[t]]

\* the handles of a Range that one tag/value pair selects; value NoValue (a
\* null value pointer) selects every handle that has a stored value.
\* sparse: the map is scanned; an entity without an entry counts with the
\* default.  dense: the slots of live sequences are scanned.
TagMatches(tt, td, em, tag, value, range) ==
    LET info == get_tag_info(tt, tag)
        live(h) == SM_find_in(em, h).code = MB_SUCCESS
        at(h) == Stored(td[tag], h)
    IN {h \in RangeSet(range) :
          IF info.storage = MB_TAG_SPARSE
          THEN \/ at(h) # NoValue /\ (value = NoValue \/ at(h) = value)
               \/ at(h) = NoValue /\ live(h) /\ value # NoValue /\ info.def = value
          ELSE /\ live(h)
               /\ \/ value = NoValue /\ at(h) # NoValue
                  \/ value # NoValue /\ ReadOne(info, td[tag], h) = value}

INTERSECT == "INTERSECT"
UNION_COND == "UNION"

RECURSIVE MatchAll(_, _, _, _, _, _, _)
MatchAll(tt, td, em, tags, values, range, cond) ==
    IF tags = <<>> THEN (IF cond = INTERSECT THEN RangeSet(range) ELSE {})
    ELSE LET m == TagMatches(tt, td, em, Head(tags), Head(values), range)
             rest == MatchAll(tt, td, em, Tail(tags), Tail(values), range, cond)
         IN IF cond = INTERSECT THEN m \cap rest ELSE m \cup rest

\* TagServer::get_entities_with_tag_values: the matches of every tag/value pair
\* intersected, or united and merged into the output Range
TS_get_entities_with_tag_values(tt, td, em, range, type, tags, values, entities, cond) ==
    IF \E i \in 1 .. Len(tags) : get_tag_info(tt, tags[i]) = NoTag
    THEN [code |-> MB_TAG_NOT_FOUND, entities |-> entities]
    ELSE LET m == {h \in MatchAll(tt, td, em, tags, values, range, cond) :
                      TYPE_FROM_HANDLE(h) = type}
         IN [code |-> MB_SUCCESS,
             entities |-> IF cond = INTERSECT THEN RangeFromSet(m)
                          ELSE RangeFromSet(RangeSet(entities) \cup m)]

\* TagServer::remove_tag: the definition and all its storage go
remove_tag(tt, td, tag) ==
    IF get_tag_info(tt, tag) = NoTag
    THEN [code |-> MB_TAG_NOT_FOUND, tt |-> tt, td |-> td]
    ELSE [code |-> MB_SUCCESS,
          tt |-> [tt EXCEPT ![tag] = NoTag],
          td |-> [td EXCEPT ![tag] = NoData]]

(***************************************************************************)
(* Core: the database layer over SequenceManager and TagServer              *)
(***************************************************************************)
EmptySet == [contents |-> {}, parents |-> {}, children |-> {}]

\* meshSets maps each live set handle to its contents and links
EmptyMeshSets == [s \in {} |-> EmptySet]

EmptyEntityMap == [t \in DBTypes |-> <<>>]

is_valid_wrong_code(em, this_ent) == SM_find_in(em, this_ent).code # MB_FAILURE

is_valid_or_null(em, this_ent) ==
    this_ent = 0 \/ SM_find_in(em, this_ent).code = MB_SUCCESS

\* Core::is_valid
is_valid(em, this_ent) ==
    LET r == SM_find_in(em, this_ent)
    IN r.seq # NullSeq /\ r.code = MB_SUCCESS

\* the [handle, err] pairs CREATE_HANDLE(type, id, err) may give: the handle of
\* a valid pair; for a pair it rejects err is set, and the handle returned
\* beside it is the zero handle or any other handle value
CREATE_HANDLE_outcomes(type, id) ==
    IF CREATE_HANDLE(type, id).err = 0 THEN {CREATE_HANDLE(type, id)}
    ELSE {[handle |-> h, err |-> 1] : h \in DBHandles \cup {0}}

\* Core::handle_from_id, made the pair CREATE_HANDLE gave: the handle is
\* looked up without looking at err
handle_from_id(em, made) ==
    [code |-> SM_find_in(em, made.handle).code, handle |-> made.handle]

get_coords_seq_start_excluded(tsm, first) ==
    LET seq_iter == lower_bound(tsm, first)
    IN IF seq_iter > Len(tsm) \/ first <= tsm[seq_iter].start
       THEN [code |-> MB_ENTITY_NOT_FOUND, seq |-> NullSeq]
       ELSE [code |-> MB_SUCCESS, seq |-> tsm[seq_iter]]

\* Core::get_coords(const Range&, double*): the sequence that holds the handle
\* `first`, by lower_bound in the vertex directory
get_coords_seq(tsm, first) ==
    LET seq_iter == lower_bound(tsm, first)
    IN IF seq_iter > Len(tsm) \/ first < tsm[seq_iter].start
       THEN [code |-> MB_ENTITY_NOT_FOUND, seq |-> NullSeq]
       ELSE [code |-> MB_SUCCESS, seq |-> tsm[seq_iter]]

\* the handles Core reports as existing
LiveSet(em) == {h \in DBHandles \cup {0} : is_valid(em, h)}

\* MBCN::VerticesPerEntity for the element type of the model
VerticesPerEntity(type) == IF type = MBEDGE THEN 2 ELSE IF type = MBVERTEX THEN 1 ELSE 0

too_few_nodes_unchecked(type, num_nodes) == FALSE

\* Core::create_element: make sure we have enough vertices for this entity type
too_few_nodes(type, num_nodes) == num_nodes < VerticesPerEntity(type)

create_vertices_range_one_more(start_handle_out, nverts) ==
    RangeInsert(<<>>, start_handle_out, start_handle_out + nverts)

\* Core::create_vertices: entity_handles.clear(); insert(start, start+nverts-1)
create_vertices_range(start_handle_out, nverts) ==
    RangeInsert(<<>>, start_handle_out, start_handle_out + nverts - 1)

\* delete_entities on a live set: clear it and undo its links, parents first
unlink_set(ms, h) ==
    [s \in DOMAIN ms |->
        IF s = h THEN EmptySet
        ELSE [ms[s] EXCEPT !.children = IF s \in ms[h].parents THEN @ \ {h} ELSE @,
                           !.parents = IF s \in ms[h].children THEN @ \ {h} ELSE @]]

\* the MeshSet object goes with the handle of its set
drop_set(ms, h) == [s \in DOMAIN ms \ {h} |-> ms[s]]

NoInjection == [h |-> 0, at |-> "none"]

delete_one_no_purge(st, h, inj) ==
    IF inj = [h |-> h, at |-> "notify"] \/ inj = [h |-> h, at |-> "purge"]
    THEN [st EXCEPT !.result = MB_FAILURE]
    ELSE LET d == SM_delete_entity(st.em, h)
         IN IF d.code # MB_SUCCESS THEN [st EXCEPT !.result = d.code]
            ELSE [st EXCEPT !.em = d.em]

\* the state of the loop after the call `step` was made for handle h
Called(st, step, h) == [st EXCEPT !.log = Append(@, <<step, h>>)]

delete_one_release_after_failure(st, h, inj) ==
    LET d == SM_delete_entity(st.em, h)
        r == Called(Called(Called(st, "notify", h), "purge", h), "release", h)
    IN IF d.code # MB_SUCCESS THEN [r EXCEPT !.result = d.code]
       ELSE [r EXCEPT !.em = d.em, !.ms = drop_set(st.ms, h),
                      !.td = ReleaseTagArrays(st.tt, TS_reset_data(st.tt, st.td, h), d.em),
                      !.result = IF inj.h = h THEN MB_FAILURE ELSE @]

\* one iteration of Core::delete_entities: notify the adjacency subsystem,
\* purge the tag data, unlink a set, release the handle; `continue` with the
\* error recorded when a step fails.  inj names the handle and the step at
\* which a collaborator (AEntityFactory, TagServer) reports a failure; log
\* lists the calls made to the collaborators, in order.
delete_one(st, h, inj) ==
    LET n == Called(st, "notify", h)
        p == Called(n, "purge", h)
        r == Called(p, "release", h)
    IN IF inj = [h |-> h, at |-> "notify"] THEN [n EXCEPT !.result = MB_FAILURE]
       ELSE IF inj = [h |-> h, at |-> "purge"] THEN [p EXCEPT !.result = MB_FAILURE]
       ELSE LET td1 == TS_reset_data(st.tt, st.td, h)
                ms1 == IF TYPE_FROM_HANDLE(h) = MBENTITYSET /\ is_valid(st.em, h)
                       THEN unlink_set(st.ms, h) ELSE st.ms
                d == SM_delete_entity(st.em, h)
            IN IF d.code # MB_SUCCESS
               THEN [r EXCEPT !.td = td1, !.ms = ms1, !.result = d.code]
               ELSE [r EXCEPT !.em = d.em, !.ms = drop_set(ms1, h),
                              !.td = ReleaseTagArrays(st.tt, td1, d.em)]

RECURSIVE delete_loop(_, _, _)
\* the reverse iteration of Core::delete_entities over the Range
delete_loop(hs, st, inj) ==
    IF hs = {} THEN st
    ELSE LET h == CHOOSE x \in hs : \A y \in hs : x >= y
         IN delete_loop(hs \ {h}, delete_one(st, h, inj), inj)

\* Core::delete_entities(const Range&)
delete_entities(em, tt, td, ms, range, inj) ==
    delete_loop(RangeSet(range),
                [em |-> em, tt |-> tt, td |-> td, ms |-> ms, result |-> MB_SUCCESS,
                 log |-> <<>>], inj)

\* MeshSetSequence::get_type: the contents of a set that have the type
get_type(ms, meshset, type) ==
    RangeFromSet({h \in ms[meshset].contents : TYPE_FROM_HANDLE(h) = type})

\* Core::get_root_set
get_root_set == 0

\* Core::get_entities_by_type(meshset, type, Range&)
get_entities_by_type(em, ms, meshset, type) ==
    IF meshset # 0
    THEN LET r == SM_find_in(em, meshset)
         IN IF r.code # MB_SUCCESS THEN [code |-> r.code, entities |-> <<>>]
            ELSE [code |-> MB_SUCCESS, entities |-> get_type(ms, meshset, type)]
    ELSE [code |-> MB_SUCCESS, entities |-> SM_get_entities(em, type)]

get_entities_by_type_and_tag_unfiltered(em, tt, td, ms, meshset, type, tags, values, entities, condition, recursive) ==
    get_entities_by_type(em, ms, meshset, type)

\* Core::get_entities_by_type_and_tag
get_entities_by_type_and_tag(em, tt, td, ms, meshset, type, tags, values, entities, condition, recursive) ==
    IF recursive /\ type = MBENTITYSET
    THEN [code |-> MB_TYPE_OUT_OF_RANGE, entities |-> entities]
    ELSE LET r == get_entities_by_type(em, ms, meshset, type)
             tmp_range == r.entities
         IN IF r.code # MB_SUCCESS THEN [code |-> r.code, entities |-> entities]
            ELSE IF RangeEmpty(tmp_range)
            THEN [code |-> MB_SUCCESS,
                  entities |-> IF condition = INTERSECT THEN <<>> ELSE entities]
            ELSE IF ~RangeEmpty(entities) /\ condition = INTERSECT
            THEN LET e2 == RangeIntersect(entities, tmp_range)
                 IN IF RangeEmpty(e2) THEN [code |-> MB_SUCCESS, entities |-> e2]
                    ELSE TS_get_entities_with_tag_values(tt, td, em, e2, type, tags,
                                                         values, e2, condition)
            ELSE TS_get_entities_with_tag_values(tt, td, em, tmp_range, type, tags,
                                                 values, entities, condition)

MB_VARIABLE_LENGTH == 0 - 1

tag_create_sparse_without_default(tt, name, size, storage, data, def_val, use_existing) ==
    add_tag(tt, name, size, storage, data,
            IF storage = MB_TAG_SPARSE THEN NoValue ELSE def_val)

tag_create_any_default(tt, name, size, storage, data, def_val, use_existing) ==
    LET r == add_tag(tt, name, size, storage, data, def_val)
    IN IF r.code = MB_ALREADY_ALLOCATED /\ use_existing
       THEN LET handle == get_handle(tt, name)
                info == get_tag_info(tt, handle)
            IN IF info.size = size /\ info.dtype = data
               THEN [code |-> MB_SUCCESS, handle |-> handle, tt |-> tt]
               ELSE [code |-> r.code, handle |-> handle, tt |-> tt]
       ELSE r

tag_create_any_size(tt, name, size, storage, data, def_val, use_existing) ==
    IF def_val # NoValue /\ size = MB_VARIABLE_LENGTH
    THEN [code |-> MB_VARIABLE_DATA_LENGTH, handle |-> 0, tt |-> tt]
    ELSE LET r == add_tag(tt, name, size, storage, data, def_val)
         IN IF r.code = MB_ALREADY_ALLOCATED /\ use_existing
            THEN LET handle == get_handle(tt, name)
                     info == get_tag_info(tt, handle)
                 IN IF info.dtype = data
                       /\ (def_val = NoValue \/ (info.def # NoValue /\ info.def = def_val))
                    THEN [code |-> MB_SUCCESS, handle |-> handle, tt |-> tt]
                    ELSE [code |-> r.code, handle |-> handle, tt |-> tt]
            ELSE r

\* Core::tag_create (the seven-argument form); def_val NoValue is a null pointer
tag_create(tt, name, size, storage, data, def_val, use_existing) ==
    IF def_val # NoValue /\ size = MB_VARIABLE_LENGTH
    THEN [code |-> MB_VARIABLE_DATA_LENGTH, handle |-> 0, tt |-> tt]
    ELSE LET r == add_tag(tt, name, size, storage, data, def_val)
         IN IF r.code = MB_ALREADY_ALLOCATED /\ use_existing
            THEN LET handle == get_handle(tt, name)
                     info == get_tag_info(tt, handle)
                 IN IF info.size = size /\ info.dtype = data
                       /\ (def_val = NoValue \/ (info.def # NoValue /\ info.def = def_val))
                    THEN [code |-> MB_SUCCESS, handle |-> handle, tt |-> tt]
                    ELSE [code |-> r.code, handle |-> handle, tt |-> tt]
            ELSE r

tag_set_data_partial(tt, td, em, tag_handle, entity_handles, tag_data) ==
    LET hs == RangeSet(entity_handles)
        ok == {h \in hs : AllLive(em, {h})}
        r == TS_set_data(tt, td, em, tag_handle, hs, tag_data)
    IN IF r.code = MB_ENTITY_NOT_FOUND
       THEN [code |-> r.code, td |-> TS_set_data(tt, td, em, tag_handle, ok, tag_data).td]
       ELSE r

\* Core::tag_set_data(tag, Range, data)
tag_set_data(tt, td, em, tag_handle, entity_handles, tag_data) ==
    TS_set_data(tt, td, em, tag_handle, RangeSet(entity_handles), tag_data)

\* Core::tag_get_data(tag, Range, data)
tag_get_data(tt, td, em, tag_handle, entity_handles) ==
    TS_get_data(tt, td, em, tag_handle, RangeSet(entity_handles))

\* Core::tag_delete
tag_delete(tt, td, tag_handle) == remove_tag(tt, td, tag_handle)

RECURSIVE AddTags(_, _)
\* the registry after the tags of defs were added in order
AddTags(tt, defs) ==
    IF defs = <<>> THEN tt
    ELSE LET d == Head(defs)
         IN AddTags(add_tag(tt, d.name, d.size, d.storage, d.dtype, d.def).tt, Tail(defs))

\* Core::initialize: the tag registry with the five default tags
initialize == AddTags(EmptyTagTable, DefaultTags)

(***************************************************************************)
(* The tag accessors of Core                                                *)
(***************************************************************************)
TS_remove_data_sparse_only(tt, td, tag, h) ==
    LET info == get_tag_info(tt, tag)
    IN IF info = NoTag THEN [code |-> MB_TAG_NOT_FOUND, td |-> td]
       ELSE [code |-> MB_SUCCESS,
             td |-> IF info.storage # MB_TAG_SPARSE THEN td
                    ELSE [td EXCEPT ![tag] = [x \in DOMAIN td[tag] \ {h} |-> td[tag][x]]]]

\* TagServer::remove_data(tag, h): the value of one entity is purged
TS_remove_data(tt, td, tag, h) ==
    LET info == get_tag_info(tt, tag)
        slot(x) == IF x = h THEN ClearedSlot(info, td[tag][x]) ELSE td[tag][x]
    IN IF info = NoTag THEN [code |-> MB_TAG_NOT_FOUND, td |-> td]
       ELSE [code |-> MB_SUCCESS,
             td |-> [td EXCEPT ![tag] = Slots([x \in DOMAIN td[tag] |-> slot(x)])]]

\* TagServer::get_default_data
TS_get_default_data(tt, tag) ==
    LET info == get_tag_info(tt, tag)
    IN IF info = NoTag THEN [code |-> MB_TAG_NOT_FOUND, out |-> NoValue]
       ELSE IF info.def = NoValue THEN [code |-> MB_ENTITY_NOT_FOUND, out |-> NoValue]
       ELSE [code |-> MB_SUCCESS, out |-> info.def]

RECURSIVE tag_delete_data_loop(_, _, _, _, _)
\* the loop of Core::tag_delete_data over the handles left, in Range order; the
\* status is that of the last handle that failed
tag_delete_data_loop(tt, td, tag_handle, hs, status) ==
    IF hs = {} THEN [code |-> status, td |-> td]
    ELSE LET h == CHOOSE x \in hs : \A y \in hs : x <= y
             temp == TS_remove_data(tt, td, tag_handle, h)
         IN tag_delete_data_loop(tt, temp.td, tag_handle, hs \ {h},
                                 IF temp.code # MB_SUCCESS THEN temp.code ELSE status)

\* Core::tag_delete_data(tag, Range)
tag_delete_data(tt, td, tag_handle, entity_handles) ==
    tag_delete_data_loop(tt, td, tag_handle, RangeSet(entity_handles), MB_SUCCESS)

\* Core::tag_get_name
tag_get_name(tt, tag_handle) ==
    LET tag_info == get_tag_info(tt, tag_handle)
    IN IF tag_info = NoTag THEN [code |-> MB_TAG_NOT_FOUND, out |-> ""]
       ELSE [code |-> MB_SUCCESS, out |-> tag_info.name]

\* Core::tag_get_size
tag_get_size(tt, tag_handle) ==
    LET tag_info == get_tag_info(tt, tag_handle)
    IN IF tag_info = NoTag THEN [code |-> MB_TAG_NOT_FOUND, out |-> 0]
       ELSE [code |-> IF tag_info.size = MB_VARIABLE_LENGTH THEN MB_VARIABLE_DATA_LENGTH
                      ELSE MB_SUCCESS,
             out |-> tag_info.size]

\* Core::tag_get_data_type
tag_get_data_type(tt, handle) ==
    LET info == get_tag_info(tt, handle)
    IN IF info = NoTag THEN [code |-> MB_TAG_NOT_FOUND, out |-> ""]
       ELSE [code |-> MB_SUCCESS, out |-> info.dtype]

\* Core::tag_get_default_value
tag_get_default_value(tt, tag_handle) == TS_get_default_data(tt, tag_handle)

\* Core::tag_get_type: the storage class is read off the handle; the registry
\* is not consulted
tag_get_type(tt, tag_handle) ==
    LET tag_type == PROP_FROM_TAG_HANDLE(tag_handle)
    IN [code |-> IF tag_type < MB_TAG_LAST + 1 THEN MB_SUCCESS ELSE MB_TAG_NOT_FOUND,
        out |-> tag_type]
(***************************************************************************)
(* Vertex coordinates                                                       *)
(***************************************************************************)
RECURSIVE set_coords_loop(_, _, _, _, _, _)
\* the loop of Core::set_coords over the handles left: status is overwritten by
\* the lookup of every vertex handle, and j, the index of the next coordinate
\* triple, moves on only when a vertex was written
set_coords_loop(em, co, entity_handles, xyz, j, status) ==
    IF entity_handles = <<>> THEN [code |-> status, co |-> co]
    ELSE LET h == Head(entity_handles)
             rest == Tail(entity_handles)
         IN IF TYPE_FROM_HANDLE(h) = MBVERTEX
            THEN LET found == SM_find_in(em, h).code
                 IN IF found = MB_SUCCESS
                    THEN set_coords_loop(em, [co EXCEPT ![h] = xyz[j]], rest, xyz, j + 1,
                                         MB_SUCCESS)
                    ELSE set_coords_loop(em, co, rest, xyz, j, found)
            ELSE set_coords_loop(em, co, rest, xyz, j,
                                 IF status = MB_SUCCESS THEN MB_TYPE_OUT_OF_RANGE
                                 ELSE status)

\* Core::set_coords(entity_handles, num_entities, coords)
set_coords(em, co, entity_handles, xyz) ==
    set_coords_loop(em, co, entity_handles, xyz, 1, MB_SUCCESS)

RECURSIVE InOrder(_)
\* the handles of a set in increasing order
InOrder(hs) ==
    IF hs = {} THEN <<>>
    ELSE LET h == CHOOSE x \in hs : \A y \in hs : x <= y
         IN <<h>> \o InOrder(hs \ {h})

\* the handles of a Range in the order of its iterator
RangeSeq(r) == InOrder(RangeSet(r))

\* Core::set_coords(Range, coords)
set_coords_range(em, co, entity_handles, xyz) ==
    set_coords_loop(em, co, RangeSeq(entity_handles), xyz, 1, MB_SUCCESS)
(***************************************************************************)
(* Read-only calls: connectivity of structured elements, side numbers,     *)
(* coordinates                                                              *)
(***************************************************************************)
MB_NOT_IMPLEMENTED == "MB_NOT_IMPLEMENTED"

\* SweptElementSeq::get_connectivity(handle, vector): the vertices of a
\* structured edge follow from its position in the block, nothing is stored
get_params_connectivity(handle) ==
    <<H(MBVERTEX, ID_FROM_HANDLE(handle)), H(MBVERTEX, ID_FROM_HANDLE(handle) + 1)>>

\* SweptElementSeq::get_connectivity(handle, connect, connect_length, topo,
\* storage): without storage nothing is returned; with storage the vector is
\* cleared, filled, and connect points into it
Swept_get_connectivity(handle, has_storage) ==
    IF ~has_storage
    THEN [code |-> MB_NOT_IMPLEMENTED, storage |-> <<>>, connect_length |-> 0]
    ELSE [code |-> MB_SUCCESS, storage |-> get_params_connectivity(handle),
          connect_length |-> Len(get_params_connectivity(handle))]

\* Core::get_connectivity(entity_handle, connectivity, number_nodes, topo,
\* storage) on a database whose element sequences are structured
get_connectivity(em, entity_handle, has_storage) ==
    LET type == TYPE_FROM_HANDLE(entity_handle)
    IN IF type < MBVERTEX \/ type >= MBENTITYSET
       THEN [code |-> MB_TYPE_OUT_OF_RANGE, storage |-> <<>>, connect_length |-> 0]
       ELSE IF type = MBVERTEX
       THEN [code |-> MB_FAILURE, storage |-> <<>>, connect_length |-> 0]
       ELSE IF SM_find_in(em, entity_handle).code # MB_SUCCESS
       THEN [code |-> MB_ENTITY_NOT_FOUND, storage |-> <<>>, connect_length |-> 0]
       ELSE Swept_get_connectivity(entity_handle, has_storage)

\* std::find(parent_conn, parent_conn + num_parent_vertices, child) -
\* parent_conn: the zero-based index of the first match, else the length
find_index(parent_conn, num_parent_vertices, child) ==
    LET S == {i \in 1 .. num_parent_vertices : parent_conn[i] = child}
    IN IF S = {} THEN num_parent_vertices
       ELSE (CHOOSE i \in S : \A j \in S : i <= j) - 1

\* Core::side_number for a vertex child, from the connectivity parent_conn
\* points to
side_number_of(parent_conn, num_parent_vertices, child) ==
    LET child_index == find_index(parent_conn, num_parent_vertices, child)
    IN IF child_index = num_parent_vertices
       THEN [code |-> MB_SUCCESS, side_number |-> -1, sense |-> 0]
       ELSE [code |-> MB_SUCCESS, side_number |-> child_index, sense |-> 1]

\* Core::side_number(parent, child, side_number, sense, offset) for a vertex
\* child, run by one thread from call to return
side_number(em, parent, child) ==
    LET first == get_connectivity(em, parent, FALSE)
        result == IF first.code = MB_NOT_IMPLEMENTED
                  THEN get_connectivity(em, parent, TRUE)
                  ELSE first
    IN IF result.code # MB_SUCCESS THEN [code |-> result.code]
       ELSE side_number_of(result.storage, result.connect_length, child)

\* SequenceManager::get_last_accessed_sequence(type): the sequence the last
\* lookup of the type ended in, any sequence of the type; null when there is none
get_last_accessed_sequence(em, type) ==
    IF em[type] = <<>> THEN {NullSeq} ELSE {em[type][i] : i \in 1 .. Len(em[type])}

RECURSIVE get_coords_loop(_, _, _, _, _)
\* the loop of Core::get_coords(entities, num_entities, coords) over the
\* handles left, vseq the vertex sequence looked at last
get_coords_loop(em, co, entities, vseq, out) ==
    IF entities = <<>> THEN [code |-> MB_SUCCESS, out |-> out]
    ELSE LET h == Head(entities)
             outside == vseq.start > h \/ vseq.end < h
             found == SM_find_in(em, h)
         IN IF outside /\ TYPE_FROM_HANDLE(h) # MBVERTEX
            THEN [code |-> MB_TYPE_OUT_OF_RANGE, out |-> out]
            ELSE IF outside /\ found.code # MB_SUCCESS
            THEN [code |-> MB_ENTITY_NOT_FOUND, out |-> out]
            ELSE get_coords_loop(em, co, Tail(entities),
                                 IF outside THEN found.seq ELSE vseq,
                                 Append(out, co[h]))

\* Core::get_coords(entities, num_entities, coords), seq the sequence
\* get_last_accessed_sequence returned
get_coords(em, co, entities, seq) ==
    IF seq = NullSeq
    THEN [code |-> IF Len(entities) # 0 THEN MB_ENTITY_NOT_FOUND ELSE MB_SUCCESS,
          out |-> <<>>]
    ELSE get_coords_loop(em, co, entities, seq, <<>>)
(***************************************************************************)
(* Element connectivity and the notifications to the adjacency subsystem   *)
(***************************************************************************)
MB_INDEX_OUT_OF_RANGE == "MB_INDEX_OUT_OF_RANGE"

\* the class of the EntitySequence that holds a live handle: a vertex
\* sequence, a set sequence, an element sequence with stored connectivity or
\* a structured one that computes it
SequenceClass(cn, h) ==
    IF TYPE_FROM_HANDLE(h) = MBVERTEX THEN "VertexSequence"
    ELSE IF TYPE_FROM_HANDLE(h) = MBENTITYSET THEN "MeshSetSequence"
    ELSE IF h \in DOMAIN cn THEN "UnstructuredElemSeq"
    ELSE "SweptElementSeq"

\* entry i (from 1) of an array of handles; behind its end the read finds
\* whatever the memory holds there, `beyond`
ReadArray(array, beyond, i) ==
    IF i <= Len(array) THEN array[i]
    ELSE IF i - Len(array) <= Len(beyond) THEN beyond[i - Len(array)]
    ELSE 0

\* the adjacency lists with the entity taken off the lists of the vertices in
\* off and put on the lists of the vertices in on; a vertex without adjacent
\* entities has no list
Relist(ad, entity, off, on) ==
    LET list(v) == ((IF v \in DOMAIN ad THEN ad[v] ELSE {}) \ (IF v \in off THEN {entity} ELSE {}))
                   \cup (IF v \in on THEN {entity} ELSE {})
    IN [v \in {w \in DOMAIN ad \cup on : list(w) # {}} |-> list(v)]

\* AEntityFactory::notify_create_entity(entity, node_array, number_nodes)
notify_create_entity(ad, entity, node_array) ==
    Relist(ad, entity, {}, {node_array[i] : i \in 1 .. Len(node_array)})

\* AEntityFactory::notify_change_connectivity(entity, old_array, new_array,
\* number_verts): at every one of the number_verts positions where the two
\* arrays differ, the entity moves from the list of the old vertex to that of
\* the new one
notify_change_connectivity(ad, entity, old_array, old_beyond, new_array, new_beyond, number_verts) ==
    LET old(i) == ReadArray(old_array, old_beyond, i)
        new(i) == ReadArray(new_array, new_beyond, i)
        differ == {i \in 1 .. number_verts : old(i) # new(i)}
        old_verts == {old(i) : i \in differ}
        new_verts == {new(i) : i \in differ}
    IN Relist(ad, entity, old_verts \ new_verts, new_verts \ old_verts)

\* ElementSequence::get_connectivity(handle, connect, connect_length) called on
\* the sequence of the handle through an ElementSequence pointer; on a
\* sequence that is no ElementSequence the call is undefined and gives
\* undef.get, with connect pointing at no array
Seq_get_connectivity(cn, handle, undef) ==
    CASE SequenceClass(cn, handle) = "UnstructuredElemSeq" ->
            [code |-> MB_SUCCESS, connect |-> cn[handle], connect_length |-> Len(cn[handle])]
      [] SequenceClass(cn, handle) = "SweptElementSeq" ->
            [code |-> Swept_get_connectivity(handle, FALSE).code, connect |-> <<>>,
             connect_length |-> 0]
      [] OTHER -> [code |-> undef.get, connect |-> <<>>, connect_length |-> 0]

\* ElementSequence::set_connectivity(handle, connect, connect_length): stored
\* connectivity has a fixed number of nodes per entity; a structured sequence
\* stores none; on a sequence that is no ElementSequence the call is undefined
\* and gives undef.set
Seq_set_connectivity(cn, handle, connect, connect_length, undef) ==
    CASE SequenceClass(cn, handle) = "UnstructuredElemSeq" ->
            IF connect_length # Len(cn[handle])
            THEN [code |-> MB_INDEX_OUT_OF_RANGE, cn |-> cn]
            ELSE [code |-> MB_SUCCESS, cn |-> [cn EXCEPT ![handle] = connect]]
      [] SequenceClass(cn, handle) = "SweptElementSeq" ->
            [code |-> MB_NOT_IMPLEMENTED, cn |-> cn]
      [] OTHER -> [code |-> undef.set, cn |-> cn]

\* Core::set_connectivity(entity_handle, connect, num_connect); undef holds
\* the outcomes of what the call leaves undefined: the codes of the two calls
\* through a miscast sequence pointer, and the handles a read behind the end
\* of the old connectivity finds
set_connectivity(em, cn, ad, entity_handle, connect, num_connect, undef) ==
    LET type == TYPE_FROM_HANDLE(entity_handle)
        found == SM_find_in(em, entity_handle)
        old == Seq_get_connectivity(cn, entity_handle, undef)
        changed == notify_change_connectivity(ad, entity_handle, old.connect, undef.beyond,
                                              connect, <<>>, num_connect)
        set == Seq_set_connectivity(cn, entity_handle, connect, num_connect, undef)
        undone == notify_change_connectivity(changed, entity_handle, connect, <<>>,
                                             old.connect, undef.beyond, num_connect)
    IN IF type < MBVERTEX \/ type > MBENTITYSET
       THEN [code |-> MB_TYPE_OUT_OF_RANGE, cn |-> cn, ad |-> ad, log |-> <<>>]
       ELSE IF found.seq = NullSeq \/ found.code # MB_SUCCESS
       THEN [code |-> IF found.code # MB_SUCCESS THEN found.code ELSE MB_ENTITY_NOT_FOUND,
             cn |-> cn, ad |-> ad, log |-> <<>>]
       ELSE IF old.code # MB_SUCCESS
       THEN [code |-> old.code, cn |-> cn, ad |-> ad, log |-> <<>>]
       ELSE IF set.code # MB_SUCCESS
       THEN [code |-> set.code, cn |-> set.cn, ad |-> undone,
             log |-> <<"notify_change_connectivity", "set_connectivity",
                       "notify_change_connectivity">>]
       ELSE [code |-> set.code, cn |-> set.cn, ad |-> changed,
             log |-> <<"notify_change_connectivity", "set_connectivity">>]
(***************************************************************************)
(* MBWriteUtil::assign_ids                                                  *)
(***************************************************************************)
\* the bytes of an int as a tag value: the model keeps tag values as numbers
\* and NoValue for none, so the int is stored with an offset that keeps the
\* bytes of -1 apart from NoValue
IntBias == 2
IntBytes(i) == i + IntBias

GLOBAL_ID_TAG_NAME == "GLOBAL_ID_TAG_NAME"

\* Core::tag_create (the five-argument form)
tag_create_opaque(tt, tag_name, tag_size, tag_type, default_value) ==
    LET data_type == IF tag_type = MB_TAG_BIT THEN MB_TYPE_BIT ELSE MB_TYPE_OPAQUE
    IN tag_create(tt, tag_name, tag_size, tag_type, data_type, default_value, FALSE)

RECURSIVE RangeIterate(_)
\* the handles of a Range in the order its iterator visits them
RangeIterate(r) ==
    IF RangeSet(r) = {} THEN <<>>
    ELSE LET first == CHOOSE x \in RangeSet(r) : \A y \in RangeSet(r) : x <= y
         IN <<first>> \o RangeIterate(RangeFromSet(RangeSet(r) \ {first}))

RECURSIVE assign_ids_last_result(_, _, _, _, _, _, _)
assign_ids_last_result(tt, td, em, rit, id_tag, i, result) ==
    IF rit = <<>> THEN [code |-> result, td |-> td]
    ELSE LET r == tag_set_data(tt, td, em, id_tag, RangeFromSet({Head(rit)}),
                               Head(rit) :> IntBytes(i))
         IN assign_ids_last_result(tt, r.td, em, Tail(rit), id_tag, i + 1, r.code)

RECURSIVE assign_ids_loop(_, _, _, _, _, _, _)
\* the loop of assign_ids from the iterator position rit on, i the next id
assign_ids_loop(tt, td, em, rit, id_tag, i, result) ==
    IF rit = <<>> THEN [code |-> result, td |-> td]
    ELSE LET r == tag_set_data(tt, td, em, id_tag, RangeFromSet({Head(rit)}),
                               Head(rit) :> IntBytes(i))
         IN assign_ids_loop(tt, r.td, em, Tail(rit), id_tag, i + 1,
                            IF r.code # MB_SUCCESS THEN r.code ELSE result)

\* the tag assign_ids writes to: id_tag, or for id_tag = 0 the global id tag,
\* created as a dense tag of one int with default -1 when it is not defined
assign_ids_tag(tt, id_tag) ==
    IF id_tag # 0 THEN [code |-> MB_SUCCESS, handle |-> id_tag, tt |-> tt]
    ELSE LET handle == get_handle(tt, GLOBAL_ID_TAG_NAME)
         IN IF handle = 0
            THEN tag_create_opaque(tt, GLOBAL_ID_TAG_NAME, 1, MB_TAG_DENSE, IntBytes(0 - 1))
            ELSE [code |-> MB_SUCCESS, handle |-> handle, tt |-> tt]

\* MBWriteUtil::assign_ids(elements, id_tag, start_id)
assign_ids(tt, td, em, elements, id_tag, start_id) ==
    LET t == assign_ids_tag(tt, id_tag)
    IN IF t.code # MB_SUCCESS THEN [code |-> t.code, tt |-> t.tt, td |-> td, tag |-> t.handle]
       ELSE LET r == assign_ids_loop(t.tt, td, em, RangeIterate(elements), t.handle,
                                     start_id, MB_SUCCESS)
            IN [code |-> r.code, tt |-> t.tt, td |-> r.td, tag |-> t.handle]
(***************************************************************************)
(* Core::load_file on the serial path                                       *)
(***************************************************************************)
MB_UNHANDLED_OPTION == "MB_UNHANDLED_OPTION"

\* Core::get_entities_by_handle(0, Range): the live entities of every type
get_entities_by_handle_root(em) ==
    RangeFromSet(UNION {RangeSet(SM_get_entities(em, t)) : t \in DBTypes})

\* Core::tag_get_tags: the handles of the tags that are defined
tag_get_tags(tt) == {t \in TagIds : tt[t] # NoTag}

\* Core::add_entities(meshset, Range)
add_entities(em, ms, meshset, entities) ==
    IF TYPE_FROM_HANDLE(meshset) = MBENTITYSET /\ is_valid(em, meshset)
    THEN [code |-> MB_SUCCESS,
          ms |-> [ms EXCEPT ![meshset].contents = @ \cup RangeSet(entities)]]
    ELSE [code |-> MB_ENTITY_NOT_FOUND, ms |-> ms]

\* ReaderIface::load_file once the vertices of the file are created (v): the
\* reader defines the tag of the file through the interface and returns the
\* code `result`
reader_load_file_end(db, file, result, v) ==
    IF v.code # MB_SUCCESS THEN [code |-> v.code, db |-> db]
    ELSE [code |-> result,
          db |-> [db EXCEPT !.em = [@ EXCEPT ![MBVERTEX] = v.tsm],
                            !.tt = IF file.tag
                                   THEN tag_create(db.tt, "color", 1, MB_TAG_SPARSE,
                                                   MB_TYPE_INTEGER, NoValue, TRUE).tt
                                   ELSE db.tt]]

\* ReaderIface::load_file: the reader creates the vertices of the file; a
\* file that holds more than the handle space has room for is not read
reader_load_file(db, file, result) ==
    reader_load_file_end(db, file, result,
                         SM_create_block(MBVERTEX, db.em[MBVERTEX], file.nverts, MB_START_ID,
                                         MaxIdOf(MBVERTEX)))

RECURSIVE delete_tags(_, _)
\* Core::tag_delete of each tag of new_tags, from the back; r holds the tag
\* table and the tag data
delete_tags(r, new_tags) ==
    IF new_tags = {} THEN r
    ELSE LET back == CHOOSE x \in new_tags : \A y \in new_tags : x >= y
         IN delete_tags(tag_delete(r.tt, r.td, back), new_tags \ {back})

\* Core::clean_up_failed_read once the new entities are deleted (d): the tags
\* that are not in initial_tags are deleted
clean_up_new_tags(d, tt, initial_tags) ==
    LET t == delete_tags([tt |-> tt, td |-> d.td], tag_get_tags(tt) \ initial_tags)
    IN [em |-> d.em, tt |-> t.tt, td |-> t.td, ms |-> d.ms]

\* Core::clean_up_failed_read
clean_up_failed_read(db, initial_ents, initial_tags) ==
    clean_up_new_tags(delete_entities(db.em, db.tt, db.td, db.ms,
                                      RangeFromSet(RangeSet(get_entities_by_handle_root(db.em))
                                                      \ RangeSet(initial_ents)),
                                      NoInjection),
                      db.tt, initial_tags)

RECURSIVE try_all_readers(_, _, _, _, _, _)
\* the body of the loop of serial_load_file once a reader has returned r: the
\* loop ends at the first reader that succeeds, and a failed read is cleaned up
try_next_reader(r, file, results, initial_ents, initial_tags) ==
    IF r.code = MB_SUCCESS THEN r
    ELSE try_all_readers(clean_up_failed_read(r.db, initial_ents, initial_tags),
                         file, results, initial_ents, initial_tags, r.code)

\* the loop of serial_load_file over the readers: results[i] is the code of
\* the i-th reader
try_all_readers(db, file, results, initial_ents, initial_tags, rval) ==
    IF results = <<>> THEN [code |-> rval, db |-> db]
    ELSE try_next_reader(reader_load_file(db, file, Head(results)), file, Tail(results),
                         initial_ents, initial_tags)

\* Core::serial_load_file once the readers have returned r: a failed read is
\* cleaned up, a successful one adds the new entities to the file set;
\* file_set 0 is the null pointer
serial_load_file_end(r, file_set, initial_ents, initial_tags) ==
    IF r.code # MB_SUCCESS
    THEN [code |-> r.code, db |-> clean_up_failed_read(r.db, initial_ents, initial_tags)]
    ELSE IF file_set # 0
    THEN LET a == add_entities(r.db.em, r.db.ms, file_set,
                               RangeFromSet(RangeSet(get_entities_by_handle_root(r.db.em))
                                               \ RangeSet(initial_ents)))
         IN [code |-> a.code, db |-> [r.db EXCEPT !.ms = a.ms]]
    ELSE r

\* the readers of Core::serial_load_file; by_extension tells whether the file
\* name selects a reader
serial_load_file_read(db, file, by_extension, results, initial_ents, initial_tags) ==
    IF by_extension THEN reader_load_file(db, file, Head(results))
    ELSE try_all_readers(db, file, results, initial_ents, initial_tags, MB_FAILURE)

\* Core::serial_load_file
serial_load_file(db, file, file_set, by_extension, results) ==
    serial_load_file_end(serial_load_file_read(db, file, by_extension, results,
                                               get_entities_by_handle_root(db.em),
                                               tag_get_tags(db.tt)),
                         file_set, get_entities_by_handle_root(db.em), tag_get_tags(db.tt))

\* the end of Core::load_file: all_seen tells whether every option of the
\* options string was recognised by the read
load_file_end(r, all_seen) ==
    IF r.code = MB_SUCCESS /\ ~all_seen THEN [r EXCEPT !.code = MB_UNHANDLED_OPTION]
    ELSE r

\* Core::load_file without the PARALLEL option
load_file(db, file, file_set, all_seen, by_extension, results) ==
    load_file_end(serial_load_file(db, file, file_set, by_extension, results), all_seen)
\* no vertex has coordinates
NoCoords == [h \in {} |-> 0]

\* no thread is inside a call
NoReaders == [r \in {} |-> 0]

\* no element has connectivity stored, no vertex has adjacent entities listed
NoConnectivity == [h \in {} |-> <<>>]

NoAdjacencies == [h \in {} |-> {}]

\* no handle was deleted yet
NoStale == [h \in {} |-> NoData]

DBInit ==
    /\ entityMap = EmptyEntityMap
    /\ tagTable = initialize
    /\ tagData = EmptyTagData
    /\ meshSets = EmptyMeshSets
    /\ ret = [op |-> "none", code |-> MB_SUCCESS]
    /\ created = {}
    /\ retired = {}
    /\ stale = NoStale
    /\ written = EmptyTagData
    /\ coords = NoCoords
    /\ tmp_connect = <<>>
    /\ readers = NoReaders
    /\ conn = NoConnectivity
    /\ adj = NoAdjacencies

DBIdle == DBInit

(***************************************************************************)
(* Core::get_number_entities_by_type_and_tag                                *)
(***************************************************************************)
\* the conversion of a bool argument to the int parameter it is passed for
IntOfBool(b) == IF b THEN 1 ELSE 0

\* the condition an int stands for: the enumerators of Interface, in order
ConditionOfInt(i) == IF i = 0 THEN INTERSECT ELSE UNION_COND

\* Core::get_number_entities_by_type_and_tag: recursive is passed in the place
\* of the condition, and the recursive parameter is left at its default
get_number_entities_by_type_and_tag(em, tt, td, ms, meshset, type, tag_handles, values, recursive) ==
    LET dum_ents == <<>>
        r == get_entities_by_type_and_tag(em, tt, td, ms, meshset, type, tag_handles, values,
                                          dum_ents, ConditionOfInt(IntOfBool(recursive)), FALSE)
    IN [code |-> r.code, num_entities |-> RangeSize(r.entities)]
(***************************************************************************)
(* Parent and child links of entity sets                                    *)
(***************************************************************************)
\* get_mesh_set: the MeshSet of a handle, none unless it is a live entity set
get_mesh_set(em, handle) == TYPE_FROM_HANDLE(handle) = MBENTITYSET /\ is_valid(em, handle)

\* Core::add_parent_meshset
add_parent_meshset(em, ms, meshset, parent_meshset) ==
    IF ~get_mesh_set(em, meshset) \/ ~get_mesh_set(em, parent_meshset)
    THEN [code |-> MB_ENTITY_NOT_FOUND, ms |-> ms]
    ELSE [code |-> MB_SUCCESS, ms |-> [ms EXCEPT ![meshset].parents = @ \cup {parent_meshset}]]

\* Core::add_child_meshset
add_child_meshset(em, ms, meshset, child_meshset) ==
    IF ~get_mesh_set(em, meshset) \/ ~get_mesh_set(em, child_meshset)
    THEN [code |-> MB_ENTITY_NOT_FOUND, ms |-> ms]
    ELSE [code |-> MB_SUCCESS, ms |-> [ms EXCEPT ![meshset].children = @ \cup {child_meshset}]]

\* Core::add_parent_child
add_parent_child(em, ms, parent, child) ==
    IF ~get_mesh_set(em, parent) \/ ~get_mesh_set(em, child)
    THEN [code |-> MB_ENTITY_NOT_FOUND, ms |-> ms]
    ELSE LET c == [ms EXCEPT ![parent].children = @ \cup {child}]
         IN [code |-> MB_SUCCESS, ms |-> [c EXCEPT ![child].parents = @ \cup {parent}]]

\* Core::remove_parent_child
remove_parent_child(em, ms, parent, child) ==
    IF ~get_mesh_set(em, parent) \/ ~get_mesh_set(em, child)
    THEN [code |-> MB_ENTITY_NOT_FOUND, ms |-> ms]
    ELSE LET c == [ms EXCEPT ![parent].children = @ \ {child}]
         IN [code |-> MB_SUCCESS, ms |-> [c EXCEPT ![child].parents = @ \ {parent}]]

\* Core::remove_parent_meshset
remove_parent_meshset(em, ms, meshset, parent_meshset) ==
    IF ~get_mesh_set(em, meshset) THEN [code |-> MB_ENTITY_NOT_FOUND, ms |-> ms]
    ELSE [code |-> MB_SUCCESS, ms |-> [ms EXCEPT ![meshset].parents = @ \ {parent_meshset}]]

\* Core::remove_child_meshset
remove_child_meshset(em, ms, meshset, child_meshset) ==
    IF ~get_mesh_set(em, meshset) THEN [code |-> MB_ENTITY_NOT_FOUND, ms |-> ms]
    ELSE [code |-> MB_SUCCESS, ms |-> [ms EXCEPT ![meshset].children = @ \ {child_meshset}]]
(***************************************************************************)
(* Handle conversion as a two-step computation over bounded inputs          *)
(***************************************************************************)
RawTypes == 0 .. (Pow2(MB_TYPE_WIDTH) - 1)
RawIds == 0 .. (MB_END_ID + 2)

HandleInit ==
    \E t \in RawTypes, i \in RawIds :
        hnd = [pc |-> "input", type |-> t, id |-> i, handle |-> 0, err |-> 0,
               dtype |-> 0, did |-> 0]

HandleIdle == hnd = [pc |-> "off"]

MakeHandle ==
    /\ hnd.pc = "input"
    /\ LET r == CREATE_HANDLE(hnd.type, hnd.id)
       IN hnd' = [hnd EXCEPT !.pc = "made", !.handle = r.handle, !.err = r.err]
    /\ UNCHANGED <<rvars, cvars, pvars, evars, dbvars>>

DecodeHandle ==
    /\ hnd.pc = "made"
    /\ hnd' = [hnd EXCEPT !.pc = "decoded",
                          !.dtype = type_from_handle(hnd.handle),
                          !.did = id_from_handle(hnd.handle)]
    /\ UNCHANGED <<rvars, cvars, pvars, evars, dbvars>>

RangeIdle == rng = <<>> /\ members = {} /\ rop = [op |-> "none"]

RangeInit == RangeIdle

\* Range::insert(h)
InsertOne ==
    \E h \in RangeVals :
        /\ rng' = RangeInsert(rng, h, h)
        /\ members' = members \cup {h}
        /\ rop' = [op |-> "insert", lo |-> h, hi |-> h]
        /\ UNCHANGED <<hvars, cvars, pvars, evars, dbvars>>

\* Range::insert(lo,hi)
InsertInterval ==
    \E lo \in RangeVals, hi \in RangeVals :
        /\ lo < hi
        /\ rng' = RangeInsert(rng, lo, hi)
        /\ members' = members \cup (lo .. hi)
        /\ rop' = [op |-> "insert", lo |-> lo, hi |-> hi]
        /\ UNCHANGED <<hvars, cvars, pvars, evars, dbvars>>

\* Range::erase(h)
EraseOne ==
    \E h \in RangeVals :
        /\ rng' = RangeErase(rng, h)
        /\ members' = members \ {h}
        /\ rop' = [op |-> "erase", lo |-> h, hi |-> h]
        /\ UNCHANGED <<hvars, cvars, pvars, evars, dbvars>>

\* Range::clear()
ClearRange ==
    /\ rng' = <<>>
    /\ members' = {}
    /\ rop' = [op |-> "clear"]
    /\ UNCHANGED <<hvars, cvars, pvars, evars, dbvars>>

\* get_adjacencies_union: sort the collected handles and insert them run by run
AdjUnionInsert ==
    \E v \in AdjVectors :
        /\ rng' = InsertRuns(rng, AdjRuns(Sort(v)))
        /\ members' = members \cup {v[i] : i \in 1 .. Len(v)}
        /\ rop' = [op |-> "adj_union"]
        /\ UNCHANGED <<hvars, cvars, pvars, evars, dbvars>>

RangeNext == InsertOne \/ InsertInterval \/ EraseOne \/ ClearRange \/ AdjUnionInsert

\* the empty Range; the handle conversions and the database are not in use
InitRange == RangeInit /\ HandleIdle /\ DBIdle

SpecRange == InitRange /\ [][RangeNext]_vars

HandleNext == MakeHandle \/ DecodeHandle

\* a (type,id) pair to convert; the Range and the database are not in use
InitHandle == HandleInit /\ RangeIdle /\ DBIdle

SpecHandle == InitHandle /\ [][HandleNext]_vars

(***************************************************************************)
(* The database: initial state and one action per Core operation           *)
(***************************************************************************)
\* the database after Core::initialize; the handle conversions and the Range
\* operations are not in use
InitDB == DBInit /\ HandleIdle /\ RangeIdle

\* the coordinate triples the calls are given, each standing for one (x, y, z)
Origin == 0

\* the coordinates without those of the handles hs
DropCoords(co, hs) == [h \in DOMAIN co \ hs |-> co[h]]

\* a single-entity create call of type t through the sequence manager; a
\* vertex is given the coordinates xyz, an element num_nodes vertices, and the
\* adjacency subsystem is told of a new element
CreateOne(op, t, xyz, num_nodes) ==
    LET ch == SM_create_choices(t, entityMap[t], MaxIdOf(t))
    IN IF ch = {}
       THEN /\ ret' = [op |-> op, code |-> MB_MEMORY_ALLOCATION_FAILED, out |-> <<>>, n |-> 1,
                       num_nodes |-> num_nodes, log |-> <<>>]
            /\ UNCHANGED <<entityMap, meshSets, created, retired, stale, coords>>
       ELSE \E c \in ch :
            /\ entityMap' = [entityMap EXCEPT ![t] = c.tsm]
            /\ meshSets' = IF t = MBENTITYSET
                           THEN (c.handle :> EmptySet) @@ meshSets ELSE meshSets
            /\ ret' = [op |-> op, code |-> MB_SUCCESS,
                       out |-> <<(<<c.handle, c.handle>>)>>, n |-> 1,
                       num_nodes |-> num_nodes,
                       log |-> IF op = "create_element"
                               THEN <<(<<"notify_create_entity", c.handle>>)>> ELSE <<>>]
            /\ created' = created \cup {c.handle}
            /\ retired' = retired \ {c.handle}
            /\ stale' = stale
            /\ coords' = IF t = MBVERTEX THEN (c.handle :> xyz) @@ coords ELSE coords

\* Core::create_vertex(coords, handle) with the coordinates drawn from points
CreateVertexAt(points) ==
    \E xyz \in points :
        /\ CreateOne("create_vertex", MBVERTEX, xyz, 0)
        /\ UNCHANGED <<hvars, rvars, pvars, evars, tagTable, tagData, written>>

CreateVertex == CreateVertexAt({Origin})

\* Core::create_vertices(coordinates, nverts, entity_handles) with nverts drawn
\* from counts, in an id space of lim ids, every vertex at the origin
CreateVerticesOf(counts, lim) ==
    \E nverts \in counts :
        LET r == SM_create_block(MBVERTEX, entityMap[MBVERTEX], nverts, MB_START_ID, lim)
        IN /\ IF r.code # MB_SUCCESS
              THEN /\ ret' = [op |-> "create_vertices", code |-> r.code, out |-> <<>>,
                              n |-> nverts]
                   /\ UNCHANGED <<entityMap, created, retired, stale, coords>>
              ELSE /\ entityMap' = [entityMap EXCEPT ![MBVERTEX] = r.tsm]
                   /\ ret' = [op |-> "create_vertices", code |-> MB_SUCCESS,
                              out |-> create_vertices_range(r.start, nverts), n |-> nverts]
                   /\ created' = created \cup (r.start .. (r.start + nverts - 1))
                   /\ retired' = retired \ (r.start .. (r.start + nverts - 1))
                   /\ stale' = stale
                   /\ coords' = [h \in r.start .. (r.start + nverts - 1) |-> Origin] @@ coords
           /\ UNCHANGED <<hvars, rvars, pvars, evars, tagTable, tagData, meshSets, written>>

CreateVertices == CreateVerticesOf(1 .. MaxId, MaxIdOf(MBVERTEX))

\* Core::create_element(type, connectivity, num_nodes, handle) for an edge
CreateElement ==
    \E num_nodes \in 0 .. 2 :
        /\ IF too_few_nodes(MBEDGE, num_nodes)
           THEN /\ ret' = [op |-> "create_element", code |-> MB_FAILURE, out |-> <<>>,
                           n |-> 1, num_nodes |-> num_nodes, log |-> <<>>]
                /\ UNCHANGED <<entityMap, meshSets, created, retired, stale, coords>>
           ELSE CreateOne("create_element", MBEDGE, Origin, num_nodes)
        /\ UNCHANGED <<hvars, rvars, pvars, evars, tagTable, tagData, written>>

\* Core::create_meshset
CreateMeshset ==
    /\ CreateOne("create_meshset", MBENTITYSET, Origin, 0)
    /\ UNCHANGED <<hvars, rvars, pvars, evars, tagTable, tagData, written>>

\* the handle sets handed to delete_entities as a Range: one handle of any kind,
\* or two consecutive handles
DeleteSets ==
    {{h} : h \in DBHandles} \cup {{h, h + 1} : h \in {x \in DBHandles : (x + 1) \in DBHandles}}

\* no failure, or the failure of one collaborator step at one handle
Injections(hs, steps) == {NoInjection} \cup {[h |-> h, at |-> a] : h \in hs, a \in steps}

\* the history of written values without the handles of hs
Forget(w, hs) == [t \in DOMAIN w |-> [h \in DOMAIN w[t] \ hs |-> w[t][h]]]

\* the tag values the handles of gone hold in td, added to the history
RecordStale(st, td, gone) ==
    [h \in DOMAIN st \cup gone |->
        IF h \in gone THEN [t \in {x \in TagIds : h \in DOMAIN td[x]} |-> td[t][h]]
        ELSE st[h]]

\* Core::delete_entities(range) with the range drawn from sets; record tells
\* whether the history of deleted tag values is kept
DeleteEntitiesRecording(sets, steps, record) ==
    \E hs \in sets :
      \E inj \in Injections(hs, steps) :
        LET range == RangeFromSet(hs)
            st == delete_entities(entityMap, tagTable, tagData, meshSets, range, inj)
            gone == (hs \cap created) \ {inj.h}
        IN /\ entityMap' = st.em
           /\ tagData' = st.td
           /\ meshSets' = st.ms
           /\ ret' = [op |-> "delete_entities", code |-> st.result, range |-> range,
                      inj |-> inj, log |-> st.log]
           /\ created' = created \ gone
           /\ retired' = retired \cup gone
           /\ stale' = IF record THEN RecordStale(stale, tagData, gone) ELSE stale
           /\ written' = Forget(written, gone)
           /\ coords' = DropCoords(coords, gone)
           /\ UNCHANGED <<hvars, rvars, pvars, evars, tagTable>>

DeleteEntitiesOf(sets, steps) == DeleteEntitiesRecording(sets, steps, FALSE)

DeleteEntities == DeleteEntitiesOf(DeleteSets, {"notify"})

SeqNext ==
    \/ CreateVertex
    \/ CreateVertices
    \/ CreateElement
    \/ CreateMeshset
    \/ DeleteEntities

\* entity creation and deletion of every kind, no tags
SpecSeq == InitDB /\ [][SeqNext]_vars

(***************************************************************************)
(* Tags: definition, data access and the tag/value query                   *)
(***************************************************************************)
\* the vertex ranges handed to the tag calls: one vertex, or the first two
VertexSets ==
    {{h} : h \in HandlesOf(MBVERTEX)} \cup {{H(MBVERTEX, MB_START_ID), H(MBVERTEX, MB_START_ID + 1)}}

\* Core::tag_get_handle
tag_get_handle(tt, name) == get_handle(tt, name)

\* the tag handle the application holds for its tag "color": 0 while the tag is
\* not defined
ColorTag == tag_get_handle(tagTable, "color")

\* Core::tag_create of the integer tag "color"
TagCreateOf(storages, defaults, flags) ==
    \E storage \in storages, def_val \in defaults, use_existing \in flags :
        LET r == tag_create(tagTable, "color", 1, storage, MB_TYPE_INTEGER, def_val,
                            use_existing)
        IN /\ tagTable' = r.tt
           /\ ret' = [op |-> "tag_create", code |-> r.code, tag |-> r.handle]
           /\ UNCHANGED <<hvars, rvars, cvars, pvars, evars, entityMap, tagData, meshSets, created, retired, stale,
                          written>>

TagCreate == TagCreateOf({MB_TAG_DENSE, MB_TAG_SPARSE}, {NoValue, 0}, BOOLEAN)

\* Core::tag_delete of a tag of the application
TagDelete ==
    \E tag \in UserTagIds :
        LET r == tag_delete(tagTable, tagData, tag)
        IN /\ tagTable' = r.tt
           /\ tagData' = r.td
           /\ ret' = [op |-> "tag_delete", code |-> r.code, tag |-> tag]
           /\ written' = IF r.code = MB_SUCCESS THEN [written EXCEPT ![tag] = NoData]
                         ELSE written
           /\ UNCHANGED <<hvars, rvars, cvars, pvars, evars, entityMap, meshSets, created, retired, stale>>

\* the history of written values after value v was set on the handles hs
Remember(w, tag, hs, v) ==
    [w EXCEPT ![tag] = [h \in DOMAIN w[tag] \cup hs |-> IF h \in hs THEN v ELSE w[tag][h]]]

\* Core::tag_set_data(tag, Range, data), the same value for every handle
TagSetDataOf(sets, values) ==
    \E tag \in {ColorTag}, hs \in sets, v \in values :
        LET r == tag_set_data(tagTable, tagData, entityMap, tag, RangeFromSet(hs),
                              [h \in hs |-> v])
        IN /\ tagData' = r.td
           /\ ret' = [op |-> "tag_set_data", code |-> r.code, tag |-> tag]
           /\ written' = IF r.code = MB_SUCCESS THEN Remember(written, tag, hs, v)
                         ELSE written
           /\ UNCHANGED <<hvars, rvars, cvars, pvars, evars, entityMap, tagTable, meshSets, created, retired, stale>>

TagSetData == TagSetDataOf(VertexSets, Values)

\* the calls of Core::get_entities_by_type_and_tag the model makes: the root
\* set queried for vertices with each value, into an empty Range or, under
\* both conditions, a filled one; a null value; one query of a set handle;
\* one recursive query for sets
QueryForms ==
    LET first2 == <<(<<H(MBVERTEX, MB_START_ID), H(MBVERTEX, MB_START_ID + 1)>>)>>
        root == [meshset : {0}, type : {MBVERTEX}, recursive : {FALSE},
                 value : Values, entities : {<<>>}, condition : {INTERSECT}]
                \cup
                [meshset : {0}, type : {MBVERTEX}, recursive : {FALSE},
                 value : Values, entities : {first2}, condition : {INTERSECT, UNION_COND}]
        null == [meshset : {0}, type : {MBVERTEX}, recursive : {FALSE},
                 value : {NoValue}, entities : {<<>>}, condition : {INTERSECT}]
        other == [meshset : {H(MBENTITYSET, MB_START_ID)}, type : {MBVERTEX, MBENTITYSET},
                  recursive : {TRUE}, value : {NoValue}, entities : {<<>>},
                  condition : {INTERSECT}]
    IN root \cup null \cup other

\* Core::get_entities_by_type_and_tag with one tag/value pair
GetEntitiesByTypeAndTag(forms) ==
    \E q \in forms :
        LET r == get_entities_by_type_and_tag(entityMap, tagTable, tagData, meshSets,
                     q.meshset, q.type, <<ColorTag>>, <<q.value>>, q.entities,
                     q.condition, q.recursive)
        IN /\ ret' = [op |-> "get_entities_by_type_and_tag", code |-> r.code,
                      tag |-> ColorTag, q |-> q, range |-> <<>>, out |-> r.entities]
           /\ UNCHANGED <<hvars, rvars, cvars, pvars, evars, entityMap, tagTable, tagData, meshSets, created,
                          retired, stale, written>>

\* TagServer::get_entities_with_tag_values with one tag/value pair over the
\* input range of all vertex handles, live or not
GetEntitiesWithTagValues ==
    \E value \in Values :
        LET range == <<(<<H(MBVERTEX, MB_START_ID), H(MBVERTEX, MaxId)>>)>>
            q == [meshset |-> 0, type |-> MBVERTEX, recursive |-> FALSE, value |-> value,
                  entities |-> <<>>, condition |-> INTERSECT]
            r == TS_get_entities_with_tag_values(tagTable, tagData, entityMap, range,
                     MBVERTEX, <<ColorTag>>, <<value>>, <<>>, INTERSECT)
        IN /\ ret' = [op |-> "get_entities_with_tag_values", code |-> r.code,
                      tag |-> ColorTag, q |-> q, range |-> range, out |-> r.entities]
           /\ UNCHANGED <<hvars, rvars, cvars, pvars, evars, entityMap, tagTable, tagData, meshSets, created,
                          retired, stale, written>>

LiveCount == Cardinality(LiveSet(entityMap))

\* the end-to-end scenario has created its vertices
InScenario == H(MBVERTEX, NVerts) \in (created \cup retired)

\* the scenario's query: color = 1 among all vertices
ScenarioQuery ==
    [meshset : {0}, type : {MBVERTEX}, recursive : {FALSE}, value : {1},
     entities : {<<>>}, condition : {INTERSECT}]

\* the steps of the end-to-end scenario after its vertices exist: the dense
\* integer tag "color" with default 0, color = 1 on a run of handles around
\* 50..60, the query, the deletion of one vertex in or next to the run, the
\* query again
ScenarioNext ==
    \/ /\ ret.op = "create_vertices"
       /\ TagCreateOf({MB_TAG_DENSE}, {0}, {FALSE})
    \/ /\ ret.op = "tag_create"
       /\ TagSetDataOf({H(MBVERTEX, lo) .. H(MBVERTEX, hi) : lo \in 49 .. 51, hi \in 59 .. 61},
                       {1})
    \/ /\ ret.op \in {"tag_set_data", "delete_entities"}
       /\ GetEntitiesByTypeAndTag(ScenarioQuery)
    \/ /\ ret.op = "get_entities_by_type_and_tag"
       /\ retired = {}
       /\ DeleteEntitiesOf({{H(MBVERTEX, d)} : d \in 47 .. 63}, {})

\* the bounded database with one tag
BoundedNext ==
    \/ LiveCount < MaxTagVerts /\ CreateVertex
    \/ CreateVerticesOf(1 .. (MaxTagVerts - LiveCount), MaxIdOf(MBVERTEX))
    \/ DeleteEntitiesOf(VertexSets, {"purge"})
    \/ TagCreate
    \/ TagDelete
    \/ TagSetData
    \/ GetEntitiesByTypeAndTag(QueryForms)
    \/ GetEntitiesWithTagValues

\* from the empty database: either the bounded database is driven by every
\* call, or the end-to-end scenario runs on NVerts vertices
TagNext ==
    \/ ~InScenario /\ BoundedNext
    \/ ret.op = "none" /\ CreateVerticesOf({NVerts}, MB_END_ID)
    \/ InScenario /\ ScenarioNext

\* vertices and one tag: creation, deletion, tag data and tag/value queries
SpecTag == InitDB /\ [][TagNext]_vars

\* Core::tag_create of one tag definition twice, dense and sparse
TagCreateBoth ==
    \E def_val \in {NoValue, 0} :
        LET d == tag_create(tagTable, "dense", 1, MB_TAG_DENSE, MB_TYPE_INTEGER, def_val,
                            FALSE)
            s == tag_create(d.tt, "sparse", 1, MB_TAG_SPARSE, MB_TYPE_INTEGER, def_val,
                            FALSE)
        IN /\ tagTable' = s.tt
           /\ ret' = [op |-> "tag_create", dense |-> [code |-> d.code],
                      sparse |-> [code |-> s.code]]
           /\ UNCHANGED <<hvars, rvars, cvars, pvars, evars, entityMap, tagData, meshSets, created, retired, stale,
                          written>>

\* Core::tag_set_data, the same call on the dense and on the sparse copy
TagSetDataBoth ==
    \E hs \in VertexSets, v \in Values :
        LET dh == tag_get_handle(tagTable, "dense")
            sh == tag_get_handle(tagTable, "sparse")
            d == tag_set_data(tagTable, tagData, entityMap, dh, RangeFromSet(hs),
                              [h \in hs |-> v])
            s == tag_set_data(tagTable, d.td, entityMap, sh, RangeFromSet(hs),
                              [h \in hs |-> v])
            w == IF d.code = MB_SUCCESS THEN Remember(written, dh, hs, v) ELSE written
        IN /\ tagData' = s.td
           /\ ret' = [op |-> "tag_set_data", hs |-> hs, dense |-> [code |-> d.code],
                      sparse |-> [code |-> s.code]]
           /\ written' = IF s.code = MB_SUCCESS THEN Remember(w, sh, hs, v) ELSE w
           /\ UNCHANGED <<hvars, rvars, cvars, pvars, evars, entityMap, tagTable, meshSets, created, retired, stale>>

\* Core::tag_get_data, the same call on the dense and on the sparse copy
TagGetDataBoth ==
    \E hs \in VertexSets :
        LET dh == tag_get_handle(tagTable, "dense")
            sh == tag_get_handle(tagTable, "sparse")
        IN /\ ret' = [op |-> "tag_get_data", hs |-> hs,
                      dense |-> tag_get_data(tagTable, tagData, entityMap, dh,
                                             RangeFromSet(hs)),
                      sparse |-> tag_get_data(tagTable, tagData, entityMap, sh,
                                              RangeFromSet(hs))]
           /\ UNCHANGED <<hvars, rvars, cvars, pvars, evars, entityMap, tagTable, tagData, meshSets, created,
                          retired, stale, written>>

EquivNext ==
    \/ LiveCount < MaxTagVerts /\ CreateVertex
    \/ CreateVerticesOf(1 .. (MaxTagVerts - LiveCount), MaxIdOf(MBVERTEX))
    \/ DeleteEntitiesOf(VertexSets, {"notify", "purge"})
    \/ TagCreateBoth
    \/ TagSetDataBoth
    \/ TagGetDataBoth

\* one tag definition stored twice, dense and sparse, driven by the same calls
SpecEquiv == InitDB /\ [][EquivNext]_vars
(***************************************************************************)
(* The life of a tag: created, used through every call, deleted, and the    *)
(* handle the application still holds used again                            *)
(***************************************************************************)
\* the calls that take a tag handle and only read the registry
TagInfoCalls ==
    {"tag_get_name", "tag_get_size", "tag_get_data_type", "tag_get_type",
     "tag_get_default_value"}

\* the calls that take a tag handle and entity handles
TagDataCalls == {"tag_get_data", "tag_set_data", "tag_delete_data"}

\* the entity ranges handed to the tag data calls: none, or the first vertex
LifeRanges == {{}, {H(MBVERTEX, MB_START_ID)}}

\* the definitions the application asks for under the name "color"
LifeRequests ==
    [size : {1}, storage : {MB_TAG_DENSE, MB_TAG_SPARSE},
     dtype : {MB_TYPE_INTEGER, MB_TYPE_OPAQUE}, def : {NoValue, 0},
     use_existing : BOOLEAN]

\* Core::tag_create of "color" with each definition, whether or not the name is
\* taken
TagCreateAs ==
    \E req \in LifeRequests :
        LET r == tag_create(tagTable, "color", req.size, req.storage, req.dtype, req.def,
                            req.use_existing)
        IN /\ tagTable' = r.tt
           /\ ret' = [op |-> "tag_create", code |-> r.code, tag |-> r.handle, req |-> req]
           /\ UNCHANGED <<hvars, rvars, cvars, pvars, evars, entityMap, tagData, meshSets, created, retired, stale,
                          written>>

\* Core::tag_get_name, tag_get_size, tag_get_data_type, tag_get_type and
\* tag_get_default_value on a tag handle of the application
TagInfoCall ==
    \E op \in TagInfoCalls, tag \in UserTagIds :
        LET r == IF op = "tag_get_name" THEN tag_get_name(tagTable, tag)
                 ELSE IF op = "tag_get_size" THEN tag_get_size(tagTable, tag)
                 ELSE IF op = "tag_get_data_type" THEN tag_get_data_type(tagTable, tag)
                 ELSE IF op = "tag_get_type" THEN tag_get_type(tagTable, tag)
                 ELSE tag_get_default_value(tagTable, tag)
        IN /\ ret' = [op |-> op, code |-> r.code, tag |-> tag, hs |-> {}]
           /\ UNCHANGED <<hvars, rvars, cvars, pvars, evars, entityMap, tagTable, tagData, meshSets, created,
                          retired, stale, written>>

\* Core::tag_get_data, tag_set_data and tag_delete_data on a tag handle of the
\* application
TagDataCall ==
    \E op \in TagDataCalls, tag \in UserTagIds, hs \in LifeRanges, v \in Values :
        LET range == RangeFromSet(hs)
            r == IF op = "tag_get_data"
                 THEN [code |-> tag_get_data(tagTable, tagData, entityMap, tag, range).code,
                       td |-> tagData]
                 ELSE IF op = "tag_set_data"
                 THEN tag_set_data(tagTable, tagData, entityMap, tag, range,
                                   [h \in hs |-> v])
                 ELSE tag_delete_data(tagTable, tagData, tag, range)
        IN /\ tagData' = r.td
           /\ ret' = [op |-> op, code |-> r.code, tag |-> tag, hs |-> hs]
           /\ written' = IF r.code # MB_SUCCESS \/ op = "tag_get_data" THEN written
                         ELSE IF op = "tag_set_data" THEN Remember(written, tag, hs, v)
                         ELSE [written EXCEPT
                                  ![tag] = [h \in DOMAIN written[tag] \ hs |-> written[tag][h]]]
           /\ UNCHANGED <<hvars, rvars, cvars, pvars, evars, entityMap, tagTable, meshSets, created, retired, stale>>

\* Core::get_entities_by_type_and_tag for the vertices with a value of a tag
\* handle of the application
TagQueryCall ==
    \E tag \in UserTagIds, value \in Values :
        LET r == get_entities_by_type_and_tag(entityMap, tagTable, tagData, meshSets, 0,
                     MBVERTEX, <<tag>>, <<value>>, <<>>, INTERSECT, FALSE)
        IN /\ ret' = [op |-> "get_entities_by_type_and_tag", code |-> r.code,
                      tag |-> tag, hs |-> {}]
           /\ UNCHANGED <<hvars, rvars, cvars, pvars, evars, entityMap, tagTable, tagData, meshSets, created,
                          retired, stale, written>>

LifeNext ==
    \/ LiveCount < 1 /\ CreateVertex
    \/ TagCreateAs
    \/ TagDelete
    \/ TagInfoCall
    \/ TagDataCall
    \/ TagQueryCall

\* one vertex and the tag "color" through its life
SpecTagLife == InitDB /\ [][LifeNext]_vars
(***************************************************************************)
(* Vertex coordinates: set_coords over arrays and Ranges of handles         *)
(***************************************************************************)
\* the coordinate triples given to create_vertex and set_coords
Points == 0 .. 1

\* the handles given to set_coords: the first two vertices and the first edge
CoordHandles == {H(MBVERTEX, MB_START_ID), H(MBVERTEX, MB_START_ID + 1), H(MBEDGE, MB_START_ID)}

\* the handle arrays given to set_coords: one or two handles in any order
CoordArrays == UNION {[1 .. n -> CoordHandles] : n \in 1 .. 2}

\* Core::set_coords(entity_handles, num_entities, coords)
SetCoords ==
    \E entity_handles \in CoordArrays :
      \E xyz \in [1 .. Len(entity_handles) -> Points] :
        LET r == set_coords(entityMap, coords, entity_handles, xyz)
        IN /\ coords' = r.co
           /\ ret' = [op |-> "set_coords", code |-> r.code, handles |-> entity_handles,
                      xyz |-> xyz]
           /\ UNCHANGED <<hvars, rvars, pvars, evars, entityMap, tagTable, tagData, meshSets,
                          created, retired, stale, written>>

\* Core::set_coords(Range, coords)
SetCoordsRange ==
    \E hs \in SUBSET CoordHandles \ {{}} :
      \E xyz \in [1 .. Cardinality(hs) -> Points] :
        LET range == RangeFromSet(hs)
            r == set_coords_range(entityMap, coords, range, xyz)
        IN /\ coords' = r.co
           /\ ret' = [op |-> "set_coords_range", code |-> r.code,
                      handles |-> RangeSeq(range), xyz |-> xyz]
           /\ UNCHANGED <<hvars, rvars, pvars, evars, entityMap, tagTable, tagData, meshSets,
                          created, retired, stale, written>>

CoordNext ==
    \/ LiveCount < 3 /\ CreateVertexAt(Points)
    \/ LiveCount < 3 /\ CreateElement
    \/ DeleteEntitiesOf({{h} : h \in CoordHandles}, {})
    \/ SetCoords
    \/ SetCoordsRange

\* vertices and an edge created and deleted, and coordinates set on them
SpecCoords == InitDB /\ [][CoordNext]_vars
(***************************************************************************)
(* SequenceManager::delete_entity on its own, without the purge of the      *)
(* database layer                                                           *)
(***************************************************************************)
\* SequenceManager::delete_entity(h) for a vertex handle: the handle leaves its
\* sequence; a SequenceData no sequence refers to any more is destroyed with
\* the dense-tag arrays it owns
SMDeleteEntity ==
    \E h \in {H(MBVERTEX, MB_START_ID), H(MBVERTEX, MB_START_ID + 1)} :
        LET d == SM_delete_entity(entityMap, h)
            gone == IF d.code = MB_SUCCESS THEN {h} ELSE {}
        IN /\ entityMap' = d.em
           /\ tagData' = IF d.code = MB_SUCCESS
                         THEN ReleaseTagArrays(tagTable, tagData, d.em) ELSE tagData
           /\ ret' = [op |-> "delete_entity", code |-> d.code, h |-> h]
           /\ created' = created \ gone
           /\ retired' = retired \cup gone
           /\ stale' = stale
           /\ written' = Forget(written, gone)
           /\ coords' = DropCoords(coords, gone)
           /\ UNCHANGED <<hvars, rvars, pvars, evars, tagTable, meshSets>>

ReleaseNext ==
    \/ LiveCount < MaxTagVerts /\ CreateVertex
    \/ TagCreateBoth
    \/ TagSetDataBoth
    \/ TagGetDataBoth
    \/ SMDeleteEntity

\* vertices with a dense and a sparse tag, released without a purge
SpecRelease == InitDB /\ [][ReleaseNext]_vars
(***************************************************************************)
(* Threads in read-only calls on a structured mesh                         *)
(***************************************************************************)
Threads == 1 .. NThreads

\* a structured block: MaxId vertices in a row, the vertex of id k at x = k - 1,
\* and the MaxId - 1 edges between neighbours in one SweptElementSeq; built
\* while no thread is inside a call
CreateSweptMesh ==
    LET v == SM_create_block(MBVERTEX, entityMap[MBVERTEX], MaxId, MB_START_ID, MaxId)
        e == SM_create_block(MBEDGE, entityMap[MBEDGE], MaxId - 1, MB_START_ID, MaxId - 1)
        new == (v.start .. (v.start + MaxId - 1)) \cup (e.start .. (e.start + MaxId - 2))
    IN /\ DOMAIN readers = {}
       /\ v.code = MB_SUCCESS
       /\ e.code = MB_SUCCESS
       /\ entityMap' = [entityMap EXCEPT ![MBVERTEX] = v.tsm, ![MBEDGE] = e.tsm]
       /\ coords' = [h \in v.start .. (v.start + MaxId - 1) |-> ID_FROM_HANDLE(h) - 1]
       /\ created' = created \cup new
       /\ ret' = [op |-> "create_swept_mesh", code |-> MB_SUCCESS]
       /\ UNCHANGED <<hvars, rvars, pvars, evars, tagTable, tagData, meshSets, retired, stale, written>>

\* the parents and children handed to side_number: an edge of the block or a
\* vertex as parent, a vertex as child
SideParents == HandlesUpTo(MBEDGE, MaxId - 1) \cup {H(MBVERTEX, MB_START_ID)}

\* the handle arrays handed to get_coords
ReadArrays ==
    {<<>>} \cup {<<h>> : h \in HandlesOf(MBVERTEX) \cup {H(MBEDGE, MB_START_ID)}}
           \cup {<<H(MBVERTEX, MaxId), H(MBVERTEX, MB_START_ID)>>}

\* a thread calls Core::side_number(parent, child, ...)
SideNumberCall(t) ==
    \E parent \in SideParents, child \in HandlesOf(MBVERTEX) :
        /\ t \notin DOMAIN readers
        /\ readers' = (t :> [op |-> "side_number", pc |-> "get_connectivity",
                             parent |-> parent, child |-> child,
                             num_parent_vertices |-> 0]) @@ readers
        /\ UNCHANGED <<hvars, rvars, cvars, evars, dbvars, tmp_connect>>

\* Core::side_number, the first get_connectivity, without storage
SideNumberConnectivity(t) ==
    /\ t \in DOMAIN readers
    /\ readers[t].pc = "get_connectivity"
    /\ LET result == get_connectivity(entityMap, readers[t].parent, FALSE)
       IN readers' = [readers EXCEPT ![t] =
                         IF result.code = MB_NOT_IMPLEMENTED
                         THEN [@ EXCEPT !.pc = "storage"]
                         ELSE [op |-> @.op, pc |-> "done", parent |-> @.parent,
                               child |-> @.child, result |-> [code |-> result.code]]]
    /\ UNCHANGED <<hvars, rvars, cvars, evars, dbvars, tmp_connect>>

\* Core::side_number, the second get_connectivity: the static vector
\* tmp_connect is cleared and filled, parent_conn points into it
SideNumberStorage(t) ==
    /\ t \in DOMAIN readers
    /\ readers[t].pc = "storage"
    /\ LET result == get_connectivity(entityMap, readers[t].parent, TRUE)
       IN IF result.code = MB_SUCCESS
          THEN /\ tmp_connect' = result.storage
               /\ readers' = [readers EXCEPT ![t] =
                                 [@ EXCEPT !.pc = "find",
                                           !.num_parent_vertices = result.connect_length]]
          ELSE /\ readers' = [readers EXCEPT ![t] =
                                 [op |-> @.op, pc |-> "done", parent |-> @.parent,
                                  child |-> @.child, result |-> [code |-> result.code]]]
               /\ UNCHANGED tmp_connect
    /\ UNCHANGED <<hvars, rvars, cvars, evars, dbvars>>

\* Core::side_number, std::find of the child behind parent_conn, and return
SideNumberFind(t) ==
    /\ t \in DOMAIN readers
    /\ readers[t].pc = "find"
    /\ readers' = [readers EXCEPT ![t] =
                      [op |-> @.op, pc |-> "done", parent |-> @.parent, child |-> @.child,
                       result |-> side_number_of(tmp_connect, @.num_parent_vertices,
                                                 @.child)]]
    /\ UNCHANGED <<hvars, rvars, cvars, evars, dbvars, tmp_connect>>

\* a thread runs Core::get_coords(entities, num_entities, coords) from call to
\* return
GetCoordsCall(t) ==
    \E entities \in ReadArrays, seq \in get_last_accessed_sequence(entityMap, MBVERTEX) :
        /\ t \notin DOMAIN readers
        /\ readers' = (t :> [op |-> "get_coords", pc |-> "done", entities |-> entities,
                             result |-> get_coords(entityMap, coords, entities, seq)])
                      @@ readers
        /\ UNCHANGED <<hvars, rvars, cvars, evars, dbvars, tmp_connect>>

\* a thread runs Core::is_valid(handle) from call to return
IsValidCall(t) ==
    \E h \in HandlesOf(MBVERTEX) \cup {0} :
        /\ t \notin DOMAIN readers
        /\ readers' = (t :> [op |-> "is_valid", pc |-> "done", entities |-> <<h>>,
                             result |-> is_valid(entityMap, h)]) @@ readers
        /\ UNCHANGED <<hvars, rvars, cvars, evars, dbvars, tmp_connect>>

\* the thread has returned and is outside the database again
Return(t) ==
    /\ t \in DOMAIN readers
    /\ readers[t].pc = "done"
    /\ readers' = [u \in DOMAIN readers \ {t} |-> readers[u]]
    /\ UNCHANGED <<hvars, rvars, cvars, evars, dbvars, tmp_connect>>

ReadersNext ==
    \/ CreateSweptMesh
    \/ \E t \in Threads : SideNumberCall(t)
    \/ \E t \in Threads : SideNumberConnectivity(t)
    \/ \E t \in Threads : SideNumberStorage(t)
    \/ \E t \in Threads : SideNumberFind(t)
    \/ \E t \in Threads : GetCoordsCall(t)
    \/ \E t \in Threads : IsValidCall(t)
    \/ \E t \in Threads : Return(t)

\* a structured mesh, built once, and threads in read-only calls on it
SpecReaders == InitDB /\ [][ReadersNext]_vars
(***************************************************************************)
(* Handles from type and id on a database with live entities               *)
(***************************************************************************)
\* the types and ids handed to handle_from_id: types of the database, the
\* first value behind the enumeration and the largest the type field holds;
\* ids of live and dead entities, the largest id and the first beyond it
FromIdTypes == DBTypes \cup {MBMAXTYPE, Pow2(MB_TYPE_WIDTH) - 1}

FromIdIds == {0, MB_START_ID, MB_START_ID + 1, MB_END_ID, MB_END_ID + 1}

\* Core::handle_from_id(type, id, handle)
HandleFromId ==
    \E type \in FromIdTypes, id \in FromIdIds :
      \E made \in CREATE_HANDLE_outcomes(type, id) :
        LET r == handle_from_id(entityMap, made)
        IN /\ ret' = [op |-> "handle_from_id", code |-> r.code, type |-> type, id |-> id,
                      handle |-> r.handle, err |-> made.err]
           /\ UNCHANGED <<hvars, rvars, cvars, pvars, evars, entityMap, tagTable, tagData, meshSets,
                          created, retired, stale, written>>

FromIdNext ==
    \/ LiveCount < MaxId /\ CreateVertex
    \/ LiveCount < MaxId /\ CreateElement
    \/ LiveCount < MaxId /\ CreateMeshset
    \/ DeleteEntitiesOf({{h} : h \in DBHandles}, {})
    \/ HandleFromId

\* entities of every kind created and deleted, and handles asked for by type
\* and id
SpecFromId == InitDB /\ [][FromIdNext]_vars
(***************************************************************************)
(* Elements with connectivity: create_element and set_connectivity         *)
(***************************************************************************)
\* the connectivity arrays handed to the calls: one to three vertex handles,
\* no vertex twice
ConnectArrays ==
    LET all == UNION {[1 .. n -> HandlesOf(MBVERTEX)] :
                         n \in 1 .. (VerticesPerEntity(MBEDGE) + 1)}
    IN {c \in all : \A i \in DOMAIN c : \A j \in DOMAIN c : c[i] = c[j] => i = j}

\* what a call of set_connectivity leaves undefined, each in every way: the
\* codes of the calls through a miscast pointer, the handle behind the end of
\* the old connectivity
Undefined ==
    [get : {MB_SUCCESS, MB_FAILURE}, set : {MB_SUCCESS, MB_FAILURE},
     beyond : {<<h>> : h \in {0, H(MBVERTEX, MaxId)}}]

\* Core::create_element(MBEDGE, connectivity, 2, handle) on live vertices: the
\* edge is stored with its connectivity and the adjacency subsystem is told
CreateEdge ==
    \E connectivity \in ConnectArrays :
        /\ Len(connectivity) = VerticesPerEntity(MBEDGE)
        /\ ~too_few_nodes(MBEDGE, Len(connectivity))
        /\ \A i \in DOMAIN connectivity : is_valid(entityMap, connectivity[i])
        /\ \E c \in SM_create_choices(MBEDGE, entityMap[MBEDGE], MaxIdOf(MBEDGE)) :
            /\ entityMap' = [entityMap EXCEPT ![MBEDGE] = c.tsm]
            /\ conn' = (c.handle :> connectivity) @@ conn
            /\ adj' = notify_create_entity(adj, c.handle, connectivity)
            /\ created' = created \cup {c.handle}
            /\ retired' = retired \ {c.handle}
            /\ stale' = stale
            /\ ret' = [op |-> "create_element", code |-> MB_SUCCESS,
                       out |-> <<(<<c.handle, c.handle>>)>>, n |-> 1,
                       num_nodes |-> Len(connectivity),
                       log |-> <<(<<"notify_create_entity", c.handle>>)>>]
        /\ UNCHANGED <<hvars, rvars, cvars, pvars, tagTable, tagData, meshSets, written>>

\* the adjacency lists that go with the stored connectivity: every element on
\* the list of each of its vertices
ListsOf(cn) ==
    LET verts(e) == {cn[e][i] : i \in 1 .. Len(cn[e])}
        list(v) == {e \in DOMAIN cn : v \in verts(e)}
    IN [v \in UNION {verts(e) : e \in DOMAIN cn} |-> list(v)]

\* Core::set_connectivity(entity_handle, connect, num_connect), called while
\* the adjacency lists are those of the stored connectivity
SetConnectivity ==
    /\ adj = ListsOf(conn)
    /\ \E entity_handle \in DBHandles \cup HandlesUpTo(MBEDGE, MaxId - 1),
          connect \in ConnectArrays, undef \in Undefined :
           LET r == set_connectivity(entityMap, conn, adj, entity_handle, connect,
                                     Len(connect), undef)
           IN /\ conn' = r.cn
              /\ adj' = r.ad
              /\ ret' = [op |-> "set_connectivity", code |-> r.code, h |-> entity_handle,
                         connect |-> connect, log |-> r.log,
                         class |-> IF is_valid(entityMap, entity_handle)
                                   THEN SequenceClass(conn, entity_handle) ELSE "none"]
    /\ UNCHANGED <<hvars, rvars, cvars, pvars, entityMap, tagTable, tagData, meshSets,
                   created, retired, stale, written>>

ConnNext ==
    \/ CreateVerticesOf({MaxId}, MaxIdOf(MBVERTEX))
    \/ CreateMeshset
    \/ CreateEdge
    \/ CreateSweptMesh
    \/ SetConnectivity

\* vertices, a set, an edge with stored connectivity or a structured block,
\* and connectivity set on any of them
SpecConn == InitDB /\ [][ConnNext]_vars
(***************************************************************************)
(* One tag definition stored three times: dense, sparse and as bits        *)
(***************************************************************************)
\* the names of the three copies with their storage classes
Copies ==
    [dense |-> MB_TAG_DENSE, sparse |-> MB_TAG_SPARSE, bit |-> MB_TAG_BIT]

RECURSIVE CreateCopies(_, _, _)
\* the registry after Core::tag_create of the copies named, and the codes
CreateCopies(tt, names, def_val) ==
    IF names = <<>> THEN [tt |-> tt, codes |-> <<>>]
    ELSE LET r == tag_create(tt, Head(names), 1, Copies[Head(names)],
                             IF Copies[Head(names)] = MB_TAG_BIT THEN MB_TYPE_BIT
                             ELSE MB_TYPE_INTEGER,
                             def_val, FALSE)
             rest == CreateCopies(r.tt, Tail(names), def_val)
         IN [tt |-> rest.tt, codes |-> <<r.code>> \o rest.codes]

CopyNames == <<"dense", "sparse", "bit">>

\* the history without the values of the handles hs of one tag
ForgetData(w, tag, hs) ==
    IF tag \notin DOMAIN w THEN w
    ELSE [w EXCEPT ![tag] = [h \in DOMAIN w[tag] \ hs |-> w[tag][h]]]

\* Core::tag_create of the three copies, with the same default or none
TagCreateEach ==
    \E def_val \in {NoValue, 0} :
        LET r == CreateCopies(tagTable, CopyNames, def_val)
        IN /\ tagTable' = r.tt
           /\ ret' = [op |-> "tag_create", codes |-> r.codes]
           /\ UNCHANGED <<hvars, rvars, cvars, pvars, evars, entityMap, tagData, meshSets,
                          created, retired, stale, written>>

\* what Core::tag_get_data reads on each copy for each of the handles hs alone
ReadEach(tt, td, em, hs) ==
    [n \in DOMAIN Copies |->
        [h \in hs |-> LET r == tag_get_data(tt, td, em, tag_get_handle(tt, n),
                                            RangeFromSet({h}))
                      IN [code |-> r.code, out |-> r.out[h]]]]

\* Core::tag_set_data, the same call on each copy
TagSetDataEach ==
    \E hs \in VertexSets, v \in Values :
        LET tag(n) == tag_get_handle(tagTable, n)
            d == tag_set_data(tagTable, tagData, entityMap, tag("dense"), RangeFromSet(hs),
                              [h \in hs |-> v])
            s == tag_set_data(tagTable, d.td, entityMap, tag("sparse"), RangeFromSet(hs),
                              [h \in hs |-> v])
            b == tag_set_data(tagTable, s.td, entityMap, tag("bit"), RangeFromSet(hs),
                              [h \in hs |-> v])
            wd == IF d.code = MB_SUCCESS THEN Remember(written, tag("dense"), hs, v)
                  ELSE written
            ws == IF s.code = MB_SUCCESS THEN Remember(wd, tag("sparse"), hs, v) ELSE wd
        IN /\ tagData' = b.td
           /\ ret' = [op |-> "tag_set_data", hs |-> hs,
                      codes |-> <<d.code, s.code, b.code>>]
           /\ written' = IF b.code = MB_SUCCESS THEN Remember(ws, tag("bit"), hs, v) ELSE ws
           /\ UNCHANGED <<hvars, rvars, cvars, pvars, evars, entityMap, tagTable, meshSets,
                          created, retired, stale>>

\* Core::tag_delete_data(tag, Range), the same call on each copy
TagDeleteDataEach ==
    \E hs \in VertexSets :
        LET tag(n) == tag_get_handle(tagTable, n)
            d == tag_delete_data(tagTable, tagData, tag("dense"), RangeFromSet(hs))
            s == tag_delete_data(tagTable, d.td, tag("sparse"), RangeFromSet(hs))
            b == tag_delete_data(tagTable, s.td, tag("bit"), RangeFromSet(hs))
            wd == IF d.code = MB_SUCCESS THEN ForgetData(written, tag("dense"), hs)
                  ELSE written
            ws == IF s.code = MB_SUCCESS THEN ForgetData(wd, tag("sparse"), hs) ELSE wd
        IN /\ tagData' = b.td
           /\ ret' = [op |-> "tag_delete_data", hs |-> hs,
                      codes |-> <<d.code, s.code, b.code>>,
                      before |-> ReadEach(tagTable, tagData, entityMap, hs \cap created)]
           /\ written' = IF b.code = MB_SUCCESS THEN ForgetData(ws, tag("bit"), hs) ELSE ws
           /\ UNCHANGED <<hvars, rvars, cvars, pvars, evars, entityMap, tagTable, meshSets,
                          created, retired, stale>>

RemoveNext ==
    \/ LiveCount < MaxTagVerts /\ CreateVertex
    \/ CreateVerticesOf(1 .. (MaxTagVerts - LiveCount), MaxIdOf(MBVERTEX))
    \/ TagCreateEach
    \/ TagSetDataEach
    \/ TagDeleteDataEach

\* vertices and one tag definition in each storage class: values set and
\* removed
SpecRemove == InitDB /\ [][RemoveNext]_vars
(***************************************************************************)
(* Ids assigned to vertices by the write utility                            *)
(***************************************************************************)
StartIds == {0 - 1}

\* the tag handles handed to assign_ids: none, and the handle of the tag
\* "color", defined or not
IdTags == {0, TAG_HANDLE_FROM_ID(DefaultCount(MB_TAG_SPARSE) + 1, MB_TAG_SPARSE)}

\* the Ranges handed to assign_ids: empty, one vertex, the first and the last,
\* all
IdRanges ==
    {{}, {H(MBVERTEX, MB_START_ID + 1)}, {H(MBVERTEX, MB_START_ID), H(MBVERTEX, MaxId)},
     HandlesOf(MBVERTEX)}

\* MBWriteUtil::assign_ids on a Range of vertex handles
AssignIds ==
    \E hs \in IdRanges, id_tag \in IdTags, start_id \in StartIds :
        LET r == assign_ids(tagTable, tagData, entityMap, RangeFromSet(hs), id_tag, start_id)
        IN /\ tagTable' = r.tt
           /\ tagData' = r.td
           /\ ret' = [op |-> "assign_ids", code |-> r.code, elements |-> hs,
                      id_tag |-> id_tag, start_id |-> start_id, tag |-> r.tag]
           /\ UNCHANGED <<hvars, rvars, cvars, pvars, evars, entityMap, meshSets, created,
                          retired, stale, written>>

\* Core::tag_delete of the global id tag
TagDeleteGlobalId ==
    \E tag \in {tag_get_handle(tagTable, GLOBAL_ID_TAG_NAME)} :
        LET r == tag_delete(tagTable, tagData, tag)
        IN /\ tagTable' = r.tt
           /\ tagData' = r.td
           /\ ret' = [op |-> "tag_delete", code |-> r.code, tag |-> tag]
           /\ UNCHANGED <<hvars, rvars, cvars, pvars, evars, entityMap, meshSets, created,
                          retired, stale, written>>

AssignNext ==
    \/ CreateVerticesOf({MaxId}, MaxIdOf(MBVERTEX))
    \/ DeleteEntitiesOf({{h} : h \in HandlesOf(MBVERTEX)}, {})
    \/ TagCreateOf({MB_TAG_SPARSE}, {NoValue}, {FALSE})
    \/ TagDelete
    \/ TagDeleteGlobalId
    \/ AssignIds

\* vertices created and deleted, the tag "color" and the global id tag defined
\* and deleted, ids assigned
SpecAssign == InitDB /\ [][AssignNext]_vars
(***************************************************************************)
(* Definitions of every size requested under one name                       *)
(***************************************************************************)
\* the definitions the application asks for under the name "color": fixed
\* sizes and the variable length, with and without a default value
CreateRequests ==
    [size : {1, 2, MB_VARIABLE_LENGTH}, storage : {MB_TAG_DENSE, MB_TAG_SPARSE},
     dtype : {MB_TYPE_INTEGER, MB_TYPE_OPAQUE}, def : {NoValue, 0, 1},
     use_existing : BOOLEAN]

\* Core::tag_create of "color" with each definition, whether or not the name is
\* taken
TagCreateRequest ==
    \E req \in CreateRequests :
        LET r == tag_create(tagTable, "color", req.size, req.storage, req.dtype, req.def,
                            req.use_existing)
        IN /\ tagTable' = r.tt
           /\ ret' = [op |-> "tag_create", code |-> r.code, tag |-> r.handle, req |-> req,
                      taken |-> tag_get_handle(tagTable, "color")]
           /\ UNCHANGED <<hvars, rvars, cvars, pvars, evars, entityMap, tagData, meshSets,
                          created, retired, stale, written>>

CreateNext ==
    \/ TagCreateRequest
    \/ TagDelete

\* the tag "color" defined, asked for again and deleted
SpecCreate == InitDB /\ [][CreateNext]_vars
(***************************************************************************)
(* Files loaded into a database that holds entities                         *)
(***************************************************************************)
\* the files: one vertex, or two vertices and a tag definition
Files == {[nverts |-> 1, tag |-> FALSE], [nverts |-> 2, tag |-> TRUE]}

\* the codes of the two readers of the reader set: at least one of them fails
ReaderResults == [1 .. 2 -> {MB_SUCCESS, MB_FAILURE}] \ {<<MB_SUCCESS, MB_SUCCESS>>}

\* the file_set argument: the null pointer, or the handle of the entity set
FileSets == {0} \cup HandlesOf(MBENTITYSET)

\* the database after Core::load_file has returned r
LoadFileReturns(r, file_set, all_seen) ==
    LET live == RangeSet(get_entities_by_handle_root(r.db.em))
    IN /\ entityMap' = r.db.em
       /\ tagTable' = r.db.tt
       /\ tagData' = r.db.td
       /\ meshSets' = r.db.ms
       /\ ret' = [op |-> "load_file", code |-> r.code, file_set |-> file_set,
                  all_seen |-> all_seen,
                  initial_ents |-> RangeSet(get_entities_by_handle_root(entityMap)),
                  initial_tags |-> tag_get_tags(tagTable)]
       /\ created' = live
       /\ retired' = retired \ live
       /\ stale' = stale
       /\ coords' = [h \in {x \in live : TYPE_FROM_HANDLE(x) = MBVERTEX} |->
                        IF h \in DOMAIN coords THEN coords[h] ELSE Origin]
       /\ UNCHANGED <<hvars, rvars, pvars, evars, written>>

\* Core::load_file(file_name, file_set, options, ...)
LoadFile ==
    \E file \in Files, file_set \in FileSets, all_seen \in BOOLEAN, by_extension \in BOOLEAN,
       results \in ReaderResults :
        LoadFileReturns(load_file([em |-> entityMap, tt |-> tagTable, td |-> tagData,
                                   ms |-> meshSets],
                                  file, file_set, all_seen, by_extension, results),
                        file_set, all_seen)

LoadNext ==
    \/ LiveCount < 1 /\ CreateVertex
    \/ CreateMeshset
    \/ DeleteEntitiesOf({{h} : h \in HandlesOf(MBENTITYSET) \cup {H(MBVERTEX, MB_START_ID)}}, {})
    \/ LoadFile

\* entities created and deleted and files loaded
SpecLoad == InitDB /\ [][LoadNext]_vars
(***************************************************************************)
(* Handles deleted with tag values and issued again                         *)
(***************************************************************************)
\* Core::tag_get_data, the same call on each copy
TagGetDataEach ==
    \E hs \in VertexSets :
        /\ ret' = [op |-> "tag_get_data", hs |-> hs,
                   out |-> ReadEach(tagTable, tagData, entityMap, hs \cap created)]
        /\ UNCHANGED <<hvars, rvars, cvars, pvars, evars, entityMap, tagTable, tagData,
                       meshSets, created, retired, stale, written>>

ReuseNext ==
    \/ LiveCount < MaxTagVerts /\ CreateVertex
    \/ DeleteEntitiesRecording(VertexSets, {}, TRUE)
    \/ TagCreateEach
    \/ TagSetDataEach
    \/ TagGetDataEach

\* vertices tagged in each storage class, deleted and created again
SpecReuse == InitDB /\ [][ReuseNext]_vars
(***************************************************************************)
(* Entities counted by type and tag value                                   *)
(***************************************************************************)
\* the queries: the root set or the entity set, vertices or sets, each value
\* or a null value pointer, recursive or not
CountForms ==
    [meshset : {0} \cup HandlesOf(MBENTITYSET), type : {MBVERTEX, MBENTITYSET},
     value : Values \cup {NoValue}, recursive : BOOLEAN]

\* Core::add_entities(meshset, Range) of vertices to the entity set
AddEntities ==
    \E meshset \in HandlesOf(MBENTITYSET), hs \in VertexSets :
        LET r == add_entities(entityMap, meshSets, meshset, RangeFromSet(hs \cap created))
        IN /\ meshSets' = r.ms
           /\ ret' = [op |-> "add_entities", code |-> r.code]
           /\ UNCHANGED <<hvars, rvars, cvars, pvars, evars, entityMap, tagTable, tagData,
                          created, retired, stale, written>>

\* Core::get_number_entities_by_type_and_tag with one tag/value pair
GetNumberEntitiesByTypeAndTag ==
    \E q \in CountForms :
        LET r == get_number_entities_by_type_and_tag(entityMap, tagTable, tagData, meshSets,
                     q.meshset, q.type, <<ColorTag>>, <<q.value>>, q.recursive)
        IN /\ ret' = [op |-> "get_number_entities_by_type_and_tag", code |-> r.code,
                      num_entities |-> r.num_entities, q |-> q]
           /\ UNCHANGED <<hvars, rvars, cvars, pvars, evars, entityMap, tagTable, tagData,
                          meshSets, created, retired, stale, written>>

CountNext ==
    \/ LiveCount < MaxTagVerts /\ CreateVertex
    \/ CreateMeshset
    \/ AddEntities
    \/ TagCreateOf({MB_TAG_DENSE, MB_TAG_SPARSE}, {0}, {FALSE})
    \/ TagSetData
    \/ GetNumberEntitiesByTypeAndTag

\* vertices, one entity set and one tag, counted by type and tag value
SpecCount == InitDB /\ [][CountNext]_vars
(***************************************************************************)
(* Entity sets linked, unlinked and deleted                                 *)
(***************************************************************************)
LinkSets == HandlesUpTo(MBENTITYSET, MaxSets)

LinkCalls ==
    {"add_parent_meshset", "add_child_meshset", "add_parent_child", "remove_parent_child",
     "remove_parent_meshset", "remove_child_meshset"}

\* Core::create_meshset with room for MaxSets entity sets
CreateLinkSet ==
    \E c \in SM_create_choices(MBENTITYSET, entityMap[MBENTITYSET], MaxSets) :
        /\ entityMap' = [entityMap EXCEPT ![MBENTITYSET] = c.tsm]
        /\ meshSets' = (c.handle :> EmptySet) @@ meshSets
        /\ ret' = [op |-> "create_meshset", code |-> MB_SUCCESS, a |-> c.handle, b |-> 0]
        /\ created' = created \cup {c.handle}
        /\ retired' = retired \ {c.handle}
        /\ UNCHANGED <<hvars, rvars, cvars, pvars, evars, tagTable, tagData, stale, written>>

\* the calls that make and undo the links between two entity sets
LinkCall ==
    \E op \in LinkCalls, a \in LinkSets, b \in LinkSets :
        LET r == IF op = "add_parent_meshset" THEN add_parent_meshset(entityMap, meshSets, a, b)
                 ELSE IF op = "add_child_meshset"
                 THEN add_child_meshset(entityMap, meshSets, a, b)
                 ELSE IF op = "add_parent_child" THEN add_parent_child(entityMap, meshSets, a, b)
                 ELSE IF op = "remove_parent_child"
                 THEN remove_parent_child(entityMap, meshSets, a, b)
                 ELSE IF op = "remove_parent_meshset"
                 THEN remove_parent_meshset(entityMap, meshSets, a, b)
                 ELSE remove_child_meshset(entityMap, meshSets, a, b)
        IN /\ meshSets' = r.ms
           /\ ret' = [op |-> op, code |-> r.code, a |-> a, b |-> b]
           /\ UNCHANGED <<hvars, rvars, cvars, pvars, evars, entityMap, tagTable, tagData,
                          created, retired, stale, written>>

LinkNext ==
    \/ CreateLinkSet
    \/ LinkCall
    \/ DeleteEntitiesOf({{h} : h \in LinkSets} \cup {LinkSets}, {})

\* entity sets created, linked as parents and children, unlinked and deleted
SpecLinks == InitDB /\ [][LinkNext]_vars
\* C6: after any sequence of insert(h), insert(lo,hi) and erase operations the
\* interval list of a Range is sorted ascending and no two intervals overlap or
\* are adjacent: e1 + 1 < s2 for consecutive intervals.
RangeCanonicality == RangeCanonical(rng)

RangeCanonicalityWitness ==
    /\ rop.op = "insert"
    /\ Len(rng) = 1
    /\ rng[1] = <<1, MaxRangeVal>>
    /\ rop.lo = 3 /\ rop.hi = 3

\* C7: size() equals the number of distinct handle values that are members:
\* inserted at least once and not erased since their last insertion.
RangeSizeCount ==
    /\ RangeSize(rng) = Cardinality(members)
    /\ RangeSet(rng) = members

RangeSizeCountWitness ==
    /\ rop.op = "erase"
    /\ Len(rng) = 2
    /\ RangeSize(rng) = 4
    /\ Cardinality(members) = 4

\* C8: for every entity type of the enumeration and every id within the id
\* field, decoding the handle made from (type,id) gives back type and id.
HandleRoundTrip ==
    (hnd.pc = "decoded" /\ hnd.type \in EntityTypes /\ hnd.id <= MB_END_ID)
        => (hnd.err = 0 /\ hnd.dtype = hnd.type /\ hnd.did = hnd.id)

HandleRoundTripWitness ==
    /\ hnd.pc = "decoded"
    /\ hnd.type = MBENTITYSET
    /\ hnd.id = MB_END_ID
    /\ hnd.dtype = MBENTITYSET
    /\ hnd.did = MB_END_ID

(***************************************************************************)
(* Claims about entity creation, deletion and the sequence directory       *)
(***************************************************************************)
CreateOps == {"create_vertex", "create_vertices", "create_element", "create_meshset"}

ProbeHandles == DBHandles \cup {0} \cup {H(t, MaxIdOf(t) + 1) : t \in DBTypes}

\* C2: after any sequence of create and delete operations, find(h) and
\* is_valid(h) succeed exactly for the handles created and not deleted since;
\* for every other handle the lookup fails with entity-not-found.
FindMatchesHistory ==
    /\ \A h \in ProbeHandles : is_valid(entityMap, h) <=> h \in created
    /\ \A t \in DBTypes : \A id \in 0 .. (MaxIdOf(t) + 1) :
          handle_from_id(entityMap, CREATE_HANDLE(t, id)).code =
              IF H(t, id) \in created THEN MB_SUCCESS ELSE MB_ENTITY_NOT_FOUND

FindMatchesHistoryWitness ==
    /\ ret.op = "delete_entities"
    /\ ret.code = MB_SUCCESS
    /\ H(MBVERTEX, 2) \in retired
    /\ {H(MBVERTEX, 1), H(MBVERTEX, 3), H(MBENTITYSET, 1)} \subseteq created
    /\ ~is_valid(entityMap, H(MBVERTEX, 2))
    /\ is_valid(entityMap, H(MBVERTEX, 3))

\* no handle is covered by two sequences of its type
NoSharedId ==
    \A t \in DBTypes : \A i \in 1 .. Len(entityMap[t]) : \A j \in 1 .. Len(entityMap[t]) :
        i # j => (entityMap[t][i].start .. entityMap[t][i].end)
                    \cap (entityMap[t][j].start .. entityMap[t][j].end) = {}

\* a successful create call returns handles that were not live before the call
\* and are live after it; create_vertices(n) returns one interval of n handles
CreateStep ==
    (ret'.op \in CreateOps /\ ret'.code = MB_SUCCESS)
        => /\ RangeSet(ret'.out) # {}
           /\ RangeSet(ret'.out) \cap LiveSet(entityMap) = {}
           /\ RangeSet(ret'.out) \subseteq LiveSet(entityMap')
           /\ LiveSet(entityMap') = LiveSet(entityMap) \cup RangeSet(ret'.out)
           /\ 0 \notin RangeSet(ret'.out)
           /\ Len(ret'.out) = 1
           /\ RangeSize(ret'.out) = ret'.n

\* C3: handle uniqueness: every create operation returns only handles that were
\* not live immediately before the call, so no two live entities of one type
\* share an id; create_vertices(n) returns one contiguous interval of exactly n
\* such handles.
HandleUniqueness == []NoSharedId /\ [][CreateStep]_vars

HandleUniquenessWitness ==
    /\ ret.op = "create_vertices"
    /\ ret.code = MB_SUCCESS
    /\ ret.n = 2
    /\ ret.out = <<(<<H(MBVERTEX, 2), H(MBVERTEX, 3)>>)>>
    /\ H(MBVERTEX, 1) \in created
    /\ retired = {}

\* the sequences of directory tsm that lie inside the handles a..b
SeqsWithin(tsm, a, b) == {i \in 1 .. Len(tsm) : a <= tsm[i].start /\ tsm[i].end <= b}

\* deleting the interior handle m of the sequence s leaves two sequences whose
\* live ranges are s minus m, every other handle resolving to the data of s
SplitStep ==
    \A t \in DBTypes : \A i \in 1 .. Len(entityMap[t]) :
        LET s == entityMap[t][i]
        IN \A m \in (s.start + 1) .. (s.end - 1) :
            (ret'.op = "delete_entities" /\ ret'.code = MB_SUCCESS
                /\ ret'.range = <<(<<m, m>>)>>)
            => /\ UNION {entityMap'[t][k].start .. entityMap'[t][k].end
                            : k \in SeqsWithin(entityMap'[t], s.start, s.end)}
                    = (s.start .. s.end) \ {m}
               /\ Cardinality(SeqsWithin(entityMap'[t], s.start, s.end)) = 2
               /\ SM_find_in(entityMap', m).code = MB_ENTITY_NOT_FOUND
               /\ \A h \in (s.start .. s.end) \ {m} :
                     /\ SM_find_in(entityMap', h).code = MB_SUCCESS
                     /\ SM_find_in(entityMap', h).seq.ds = s.ds
                     /\ SM_find_in(entityMap', h).seq.de = s.de

\* C4: sequence split preserves the live set: for a sequence with live range
\* [a,b] and an interior handle m, after erase(m) the union of the live ranges
\* of the resulting sequences is [a,b] minus {m}, and find(h) for every other h
\* of [a,b] resolves to a sequence that references the same SequenceData.
SplitPreservesLiveSet == [][SplitStep]_vars

SplitPreservesLiveSetWitness ==
    /\ ret.op = "delete_entities"
    /\ ret.code = MB_SUCCESS
    /\ ret.range = <<(<<H(MBVERTEX, 2), H(MBVERTEX, 2)>>)>>
    /\ Len(entityMap[MBVERTEX]) = 2
    /\ entityMap[MBVERTEX][1] = [start |-> H(MBVERTEX, 1), end |-> H(MBVERTEX, 1),
                                 ds |-> H(MBVERTEX, 1), de |-> H(MBVERTEX, 3)]
    /\ entityMap[MBVERTEX][2] = [start |-> H(MBVERTEX, 3), end |-> H(MBVERTEX, 3),
                                 ds |-> H(MBVERTEX, 1), de |-> H(MBVERTEX, 3)]

Owners(tsm, h) == {i \in 1 .. Len(tsm) : tsm[i].start <= h /\ h <= tsm[i].end}

\* C5: in every reachable state of one TypeSequenceManager the live ranges of
\* two distinct sequences are disjoint and the sequences are ordered by start
\* handle, so a lookup by handle finds at most one owning sequence (and the
\* lower_bound lookup of get_coords finds that one).
SequencesDisjointOrdered ==
    \A t \in DBTypes :
        LET tsm == entityMap[t]
        IN /\ \A i \in 1 .. Len(tsm) :
                tsm[i].ds <= tsm[i].start /\ tsm[i].start <= tsm[i].end /\ tsm[i].end <= tsm[i].de
           /\ \A i \in 1 .. (Len(tsm) - 1) : tsm[i].end < tsm[i + 1].start
           /\ \A h \in ProbeHandles :
                /\ Cardinality(Owners(tsm, h)) <= 1
                /\ get_coords_seq(tsm, h).code = MB_SUCCESS <=> Owners(tsm, h) # {}
                /\ Owners(tsm, h) # {}
                      => get_coords_seq(tsm, h).seq = tsm[CHOOSE i \in Owners(tsm, h) : TRUE]

SequencesDisjointOrderedWitness ==
    /\ Len(entityMap[MBVERTEX]) = 2
    /\ entityMap[MBVERTEX][1].ds # entityMap[MBVERTEX][2].ds
    /\ entityMap[MBVERTEX][1].end + 1 = entityMap[MBVERTEX][2].start
    /\ ret.op = "create_vertex"


\* C16: no successful create call returns handle 0 and handle 0 is in no
\* reachable state a live entity: is_valid(0) is false and find(0) reports
\* entity-not-found; as a set handle, 0 is the root set, whose entities of a
\* type are all the live entities of the type.
NullHandleNeverValid ==
    /\ (ret.op \in CreateOps /\ ret.code = MB_SUCCESS) => 0 \notin RangeSet(ret.out)
    /\ 0 \notin created
    /\ ~is_valid(entityMap, 0)
    /\ SM_find_in(entityMap, 0).code = MB_ENTITY_NOT_FOUND
    /\ get_root_set = 0
    /\ \A t \in DBTypes :
          LET r == get_entities_by_type(entityMap, meshSets, get_root_set, t)
          IN /\ r.code = MB_SUCCESS
             /\ RangeSet(r.entities) = {h \in created : TYPE_FROM_HANDLE(h) = t}

\* the lowest vertex handle was deleted and issued again, with an edge and a
\* set alive
NullHandleNeverValidWitness ==
    /\ ret.op = "create_vertex"
    /\ ret.code = MB_SUCCESS
    /\ RangeSet(ret.out) = {H(MBVERTEX, MB_START_ID)}
    /\ H(MBVERTEX, MB_START_ID + 1) \in retired
    /\ H(MBEDGE, MB_START_ID) \in created
    /\ H(MBENTITYSET, MB_START_ID) \in created
    /\ ~is_valid(entityMap, 0)

\* C19: create_element with fewer nodes than the topology has vertices returns
\* an error, leaves the directory and the live set of every type as they
\* were, and makes no call to the adjacency subsystem.
TooFewNodesCreatesNothing ==
    [][(ret'.op = "create_element" /\ ret'.num_nodes < VerticesPerEntity(MBEDGE)) =>
          /\ ret'.code # MB_SUCCESS
          /\ ret'.out = <<>>
          /\ ret'.log = <<>>
          /\ entityMap' = entityMap
          /\ LiveSet(entityMap') = LiveSet(entityMap)
          /\ created' = created]_vars

\* an edge of one node was refused after an edge of two nodes had been created
TooFewNodesCreatesNothingWitness ==
    /\ ret.op = "create_element"
    /\ ret.num_nodes = 1
    /\ ret.code = MB_FAILURE
    /\ ret.log = <<>>
    /\ created = {H(MBVERTEX, MB_START_ID), H(MBEDGE, MB_START_ID)}
(***************************************************************************)
(* Claims about tags, deletion and the tag/value query                     *)
(***************************************************************************)
QueryOps == {"get_entities_by_type_and_tag", "get_entities_with_tag_values"}

\* the last call was a tag/value query that succeeded
QueryDone == ret.op \in QueryOps /\ ret.code = MB_SUCCESS

\* the handles the caller of the last query had put in the output Range to be
\* united with the matches
CallerSupplied ==
    IF ret.q.condition = UNION_COND THEN RangeSet(ret.q.entities) ELSE {}

\* C1: once delete_entities has succeeded for a live handle h, is_valid(h) and
\* find(h) report entity-not-found, and no successful tag/value query, of the
\* root set or of an input range that still holds h, for either value or a
\* null value, puts h among its matches, until h is issued again by a create.
DeletionPurgesQueryability ==
    /\ \A h \in retired :
          /\ ~is_valid(entityMap, h)
          /\ SM_find_in(entityMap, h).code = MB_ENTITY_NOT_FOUND
    /\ QueryDone => (RangeSet(ret.out) \ CallerSupplied) \cap retired = {}

DeletionPurgesQueryabilityWitness ==
    /\ ret.op = "get_entities_with_tag_values"
    /\ ret.code = MB_SUCCESS
    /\ tagTable[ret.tag].storage = MB_TAG_SPARSE
    /\ retired \cap RangeSet(ret.range) # {}
    /\ RangeSet(ret.out) # {}
    /\ \E h \in retired : h + 1 \in RangeSet(ret.out)

\* the handles the last query was asked to select from
QueryInput ==
    IF ret.op = "get_entities_with_tag_values" THEN RangeSet(ret.range)
    ELSE IF RangeEmpty(ret.q.entities) THEN created
    ELSE RangeSet(ret.q.entities)

\* the value of the tag an entity has now: the value last set on it since it
\* was created, else the default of the tag; none for a handle that is no tag
CurrentValue(tag, h) ==
    IF tag \notin DOMAIN tagTable THEN NoValue
    ELSE IF h \in DOMAIN written[tag] THEN written[tag][h] ELSE tagTable[tag].def

\* the scenario's query has run with color = 1 on exactly the handles lo..hi,
\* less the deleted ones
ScenarioQueried(lo, hi, deleted) ==
    /\ InScenario
    /\ QueryDone
    /\ created = HandlesUpTo(MBVERTEX, NVerts) \ deleted
    /\ retired = deleted
    /\ written[ret.tag] = [h \in (H(MBVERTEX, lo) .. H(MBVERTEX, hi)) \ deleted |-> 1]

\* C9: a successful query for one tag and one value, intersecting, returns
\* exactly the handles of its input that are live and whose current value of
\* the tag is the value, as a canonical Range; with 100 vertices and color = 1
\* on 50..60 that is [50,60], 11 entities, and once 55 is deleted it is
\* {[50,54],[56,60]}, 10 entities.
QueryReturnsExactMatches ==
    /\ (QueryDone /\ ret.q.condition = INTERSECT /\ ret.q.value # NoValue) =>
          /\ RangeCanonical(ret.out)
          /\ RangeSet(ret.out) =
                {h \in QueryInput \cap created : CurrentValue(ret.tag, h) = ret.q.value}
    /\ ScenarioQueried(50, 60, {}) =>
          /\ ret.out = <<(<<H(MBVERTEX, 50), H(MBVERTEX, 60)>>)>>
          /\ RangeSize(ret.out) = 11
    /\ ScenarioQueried(50, 60, {H(MBVERTEX, 55)}) =>
          /\ ret.out = <<(<<H(MBVERTEX, 50), H(MBVERTEX, 54)>>),
                         (<<H(MBVERTEX, 56), H(MBVERTEX, 60)>>)>>
          /\ RangeSize(ret.out) = 10

QueryReturnsExactMatchesWitness ==
    /\ ScenarioQueried(50, 60, {H(MBVERTEX, 55)})
    /\ Len(ret.out) = 2
    /\ tagTable[ret.tag].storage = MB_TAG_DENSE
    /\ tagTable[ret.tag].def = 0

\* C10: the same tag_set_data and tag_get_data calls on the same live entities,
\* made on a dense and on a sparse copy of one fixed-size tag definition, give
\* the same return code on both copies and the same values at every
\* tag_get_data.
SparseDenseEquivalence ==
    (ret.op \in {"tag_set_data", "tag_get_data"} /\ ret.hs \subseteq created) =>
        ret.dense = ret.sparse

SparseDenseEquivalenceWitness ==
    /\ ret.op = "tag_get_data"
    /\ ret.hs \subseteq created
    /\ Cardinality(ret.hs) = 2
    /\ ret.dense.code = MB_SUCCESS
    /\ ret.sparse.code = MB_SUCCESS
    /\ \E h \in ret.hs : \E g \in ret.hs :
          /\ ret.dense.out[h] = 1
          /\ ret.dense.out[g] = 0
          /\ h \in DOMAIN written[tag_get_handle(tagTable, "dense")]
          /\ g \notin DOMAIN written[tag_get_handle(tagTable, "dense")]
(***************************************************************************)
(* Claims about tag data access                                            *)
(***************************************************************************)
\* the handles of the last tag_get_data call on which the copy `tag` was never
\* set since they were created
NeverSet(tag) == ret.hs \ DOMAIN written[tag]

\* C11: for a tag created with a default value and an entity, created before
\* or after the tag, on which the tag was never set, tag_get_data succeeds and
\* returns the default value; checked on the dense and on the sparse copy.
DefaultReadBack ==
    LET dh == tag_get_handle(tagTable, "dense")
        sh == tag_get_handle(tagTable, "sparse")
    IN (/\ ret.op = "tag_get_data"
        /\ ret.hs \subseteq created
        /\ dh # 0
        /\ tagTable[dh].def # NoValue) =>
          /\ ret.dense.code = MB_SUCCESS
          /\ ret.sparse.code = MB_SUCCESS
          /\ \A h \in NeverSet(dh) : ret.dense.out[h] = tagTable[dh].def
          /\ \A h \in NeverSet(sh) : ret.sparse.out[h] = tagTable[sh].def

\* a vertex that was tagged, deleted and created again is read back with the
\* default, next to one that holds a set value
DefaultReadBackWitness ==
    LET dh == tag_get_handle(tagTable, "dense")
    IN /\ ret.op = "tag_get_data"
       /\ ret.hs \subseteq created
       /\ dh # 0
       /\ tagTable[dh].def = 0
       /\ Cardinality(ret.hs) = 2
       /\ \E h \in NeverSet(dh) : ret.dense.out[h] = 0
       /\ \E h \in ret.hs : ret.dense.out[h] = 1

\* the step is a call of op on both copies of the tag, both defined, with a
\* handle in its input that is not a live entity
BulkCallWithDeadHandle(op) ==
    /\ ret'.op = op
    /\ tag_get_handle(tagTable, "dense") # 0
    /\ tag_get_handle(tagTable, "sparse") # 0
    /\ ~(ret'.hs \subseteq LiveSet(entityMap))

TagCalls == TagInfoCalls \cup TagDataCalls \cup {"get_entities_by_type_and_tag"}

\* C13: a call other than tag_create that is made with the handle of a tag
\* right after tag_delete has succeeded for that handle (get, set or delete
\* data, name, size, data type, storage type, default value, tag/value query)
\* does not return success.
DeletedTagRejectsEveryCall ==
    [][(/\ ret.op = "tag_delete"
        /\ ret.code = MB_SUCCESS
        /\ ret'.op \in TagCalls
        /\ ret'.tag = ret.tag) => ret'.code # MB_SUCCESS]_vars

\* the step is a tag_create of "color" while a tag of that name is defined
CreateOnTakenName ==
    /\ ret'.op = "tag_create"
    /\ tag_get_handle(tagTable, "color") # 0

\* the requested definition is the definition of the tag
Identical(info, req) ==
    /\ info.size = req.size
    /\ info.storage = req.storage
    /\ info.dtype = req.dtype
    /\ info.def = req.def

\* what Core::tag_create compares when it may use the existing tag: size and
\* data type, and the default value when one is requested
Matches(info, req) ==
    /\ info.size = req.size
    /\ info.dtype = req.dtype
    /\ req.def # NoValue => info.def = req.def

LiveVertex(h) == TYPE_FROM_HANDLE(h) = MBVERTEX /\ is_valid(entityMap, h)

\* C15: set_coords over a handle array or a Range returns a non-success code
\* whenever one of the handles given, at whatever position, is not a live
\* vertex.
SetCoordsReportsFailure ==
    (/\ ret.op \in {"set_coords", "set_coords_range"}
     /\ \E i \in DOMAIN ret.handles : ~LiveVertex(ret.handles[i])) =>
        ret.code # MB_SUCCESS
(***************************************************************************)
(* Claims about Core::delete_entities                                       *)
(***************************************************************************)
\* the calls of the log that were made for handle h, in order
RECURSIVE CallsFor(_, _)
CallsFor(log, h) ==
    IF log = <<>> THEN <<>>
    ELSE IF Head(log)[2] = h THEN <<Head(log)[1]>> \o CallsFor(Tail(log), h)
    ELSE CallsFor(Tail(log), h)

\* C17: in Core::delete_entities every handle of the input has the adjacency
\* subsystem notified first, its tag data purged second and its handle
\* released by the SequenceManager last; a handle for which the notification
\* or the purge fails is not released, it is live after the call exactly if it
\* was live before, and the call returns a non-success code.
DeletionOrder ==
    [][ret'.op = "delete_entities" =>
          /\ \A h \in RangeSet(ret'.range) :
                CallsFor(ret'.log, h) =
                    IF ret'.inj = [h |-> h, at |-> "notify"] THEN <<"notify">>
                    ELSE IF ret'.inj = [h |-> h, at |-> "purge"] THEN <<"notify", "purge">>
                    ELSE <<"notify", "purge", "release">>
          /\ ret'.inj # NoInjection =>
                /\ ret'.code # MB_SUCCESS
                /\ is_valid(entityMap', ret'.inj.h) <=> is_valid(entityMap, ret'.inj.h)
                /\ ret'.inj.h \in created => ret'.inj.h \in created']_vars

\* of two tagged vertices deleted in one call the first was released and the
\* purge of the second failed: it is live and keeps its values
DeletionOrderWitness ==
    LET dh == tag_get_handle(tagTable, "dense")
        v1 == H(MBVERTEX, MB_START_ID)
        v2 == H(MBVERTEX, MB_START_ID + 1)
    IN /\ ret.op = "delete_entities"
       /\ ret.inj = [h |-> v1, at |-> "purge"]
       /\ ret.log = <<(<<"notify", v2>>), (<<"purge", v2>>), (<<"release", v2>>),
                      (<<"notify", v1>>), (<<"purge", v1>>)>>
       /\ ret.code = MB_FAILURE
       /\ is_valid(entityMap, v1)
       /\ ~is_valid(entityMap, v2)
       /\ dh # 0
       /\ Stored(tagData[dh], v1) = 1

\* the handles that lie in a SequenceData block of the directory em
InSomeBlock(em) == UNION {BlockHandles(em[t]) : t \in DBTypes}

\* C18 as stated: SequenceManager::delete_entity(h) leaves the registry of the
\* TagServer and every stored tag value, of h and of every other handle, as
\* they were.
ReleaseKeepsEveryTagValue ==
    [][ret'.op = "delete_entity" => (tagTable' = tagTable /\ tagData' = tagData)]_vars

\* C18: SequenceManager::delete_entity(h) leaves the registry and every sparse
\* tag value, that of h included, as they were, and leaves every dense tag
\* value as it was in each SequenceData block that still exists after the
\* call; it writes no value, and the only values that go are the dense arrays
\* of a SequenceData destroyed with its last sequence.
ReleaseKeepsTagValuesOfBlocks ==
    [][ret'.op = "delete_entity" =>
          /\ tagTable' = tagTable
          /\ \A t \in TagIds :
                /\ \A g \in DOMAIN tagData'[t] : Stored(tagData[t], g) = tagData'[t][g]
                /\ \A g \in DOMAIN tagData[t] :
                      (tagTable[t].storage = MB_TAG_SPARSE \/ g \in InSomeBlock(entityMap'))
                          => Stored(tagData'[t], g) = tagData[t][g]]_vars

\* a tagged vertex was released while the other vertex of its block is live:
\* the dense slot and the sparse entry of the dead vertex are still stored
ReleaseKeepsTagValuesOfBlocksWitness ==
    LET dh == tag_get_handle(tagTable, "dense")
        sh == tag_get_handle(tagTable, "sparse")
    IN /\ ret.op = "delete_entity"
       /\ ret.code = MB_SUCCESS
       /\ dh # 0
       /\ sh # 0
       /\ LiveCount = 1
       /\ Stored(tagData[dh], ret.h) = 1
       /\ Stored(tagData[sh], ret.h) = 1
(***************************************************************************)
(* Claims about concurrent readers                                          *)
(***************************************************************************)
\* the result of the call of a thread when the thread runs it alone
RunAlone(rd) ==
    CASE rd.op = "side_number" -> side_number(entityMap, rd.parent, rd.child)
      [] rd.op = "get_coords" ->
            get_coords(entityMap, coords, rd.entities,
                       CHOOSE seq \in get_last_accessed_sequence(entityMap, MBVERTEX) : TRUE)
      [] rd.op = "is_valid" -> is_valid(entityMap, rd.entities[1])

\* C20: with no mutator running, read-only calls interleaved in any way write
\* nothing another reader reads, so that every reader returns the result its
\* call returns when run alone.
ReadersReturnResultOfRunAlone ==
    \A t \in DOMAIN readers :
        readers[t].pc = "done" => readers[t].result = RunAlone(readers[t])
(***************************************************************************)
(* Claims about handles made from type and id                               *)
(***************************************************************************)
\* the pair is one make_handle has to reject
OutOfField(type, id) == id > MB_END_ID \/ type \notin EntityTypes

\* C21: make_handle fails for an id beyond the id field or a type outside the
\* enumeration, and handle_from_id for such an input never reports success
\* nor yields the handle of a live entity.
HandleFromIdRejectsOutOfField ==
    (ret.op = "handle_from_id" /\ OutOfField(ret.type, ret.id)) =>
        /\ ret.err # 0
        /\ ret.code # MB_SUCCESS
        /\ ret.handle \notin LiveSet(entityMap)
(***************************************************************************)
(* Claims about set_connectivity                                            *)
(***************************************************************************)
\* the step is a call of set_connectivity on a handle of one of the types
SetConnectivityOn(types) ==
    /\ ret'.op = "set_connectivity"
    /\ TYPE_FROM_HANDLE(ret'.h) \in types

\* C22: set_connectivity on a vertex or an entity set returns an error and
\* changes neither any stored connectivity nor the state of the adjacency
\* subsystem.
SetConnectivityRejectsNonElement ==
    [][SetConnectivityOn({MBVERTEX, MBENTITYSET}) =>
          /\ ret'.code # MB_SUCCESS
          /\ conn' = conn
          /\ adj' = adj]_vars

ReadOfDefault(def_val) ==
    IF def_val # NoValue THEN [code |-> MB_SUCCESS, out |-> def_val]
    ELSE [code |-> MB_TAG_NOT_FOUND, out |-> NoValue]

\* C23: after tag_delete_data(tag, h) on a live entity h, reading the tag on h
\* gives the default of the tag, or tag-not-found when it has none, the same
\* for dense, sparse and bit storage, and the values of all other handles are
\* what they were.
RemovedDataReadsDefault ==
    [][(ret'.op = "tag_delete_data" /\ ret'.codes = <<MB_SUCCESS, MB_SUCCESS, MB_SUCCESS>>) =>
          LET before == ReadEach(tagTable, tagData, entityMap, created)
              after == ReadEach(tagTable', tagData', entityMap', created)
          IN \A n \in DOMAIN Copies :
                /\ \A h \in ret'.hs \cap created :
                      after[n][h] = ReadOfDefault(tagTable[tag_get_handle(tagTable, n)].def)
                /\ \A g \in created \ ret'.hs : after[n][g] = before[n][g]]_vars

RemovedDataReadsDefaultWitness ==
    /\ ret.op = "tag_delete_data"
    /\ ret.codes = <<MB_SUCCESS, MB_SUCCESS, MB_SUCCESS>>
    /\ \E h \in ret.hs \cap created : \E g \in created \ ret.hs :
          /\ \A n \in DOMAIN Copies :
                /\ ret.before[n][h] = [code |-> MB_SUCCESS, out |-> 1]
                /\ tagTable[tag_get_handle(tagTable, n)].def = 0
                /\ tag_get_data(tagTable, tagData, entityMap, tag_get_handle(tagTable, n),
                                RangeFromSet({h, g})).out = (h :> 0) @@ (g :> 1)
(***************************************************************************)
(* Claims about MBWriteUtil::assign_ids                                     *)
(***************************************************************************)
\* the handles of elements whose tag_set_data fails in the state before the call
FailsToSet(tt, em, tag, hs) ==
    IF get_tag_info(tt, tag) = NoTag THEN hs ELSE {h \in hs : ~AllLive(em, {h})}

\* C24: assign_ids(range, id_tag, start_id) sets the id tag of the k-th handle
\* of the range, in ascending order, to start_id + k; with id_tag = 0 it writes
\* to the global id tag, which it creates when it is not defined; it returns a
\* code other than success if setting the tag failed for any handle.
AssignIdsNumbersInOrder ==
    [][ret'.op = "assign_ids" =>
          LET rit == RangeIterate(RangeFromSet(ret'.elements))
              global == tag_get_handle(tagTable', GLOBAL_ID_TAG_NAME)
              failed == FailsToSet(tagTable', entityMap, ret'.tag, ret'.elements)
          IN /\ ret'.id_tag = 0 =>
                   /\ global # 0 /\ ret'.tag = global
                   /\ tag_get_handle(tagTable, GLOBAL_ID_TAG_NAME) # 0 => tagTable' = tagTable
             /\ ret'.id_tag # 0 => ret'.tag = ret'.id_tag /\ tagTable' = tagTable
             /\ \A k \in 1 .. Len(rit) :
                   rit[k] \notin failed =>
                       tag_get_data(tagTable', tagData', entityMap', ret'.tag,
                                    RangeFromSet({rit[k]})).out[rit[k]]
                          = IntBytes(ret'.start_id + (k - 1))
             /\ (failed # {}) => ret'.code # MB_SUCCESS
             /\ (failed = {}) => ret'.code = MB_SUCCESS]_vars

AssignIdsNumbersInOrderWitness ==
    /\ ret.op = "assign_ids"
    /\ ret.id_tag = 0
    /\ ret.elements = HandlesOf(MBVERTEX)
    /\ ret.code = MB_ENTITY_NOT_FOUND
    /\ ~AllLive(entityMap, {H(MBVERTEX, MB_START_ID + 1)})
    /\ tagTable[ret.tag].def = IntBytes(0 - 1)
    /\ tag_get_data(tagTable, tagData, entityMap, ret.tag,
                    RangeFromSet({H(MBVERTEX, MB_START_ID), H(MBVERTEX, MaxId)})).out
          = (H(MBVERTEX, MB_START_ID) :> IntBytes(0 - 1)) @@ (H(MBVERTEX, MaxId) :> IntBytes(MaxId - 2))
(***************************************************************************)
(* Claims about Core::tag_create                                            *)
(***************************************************************************)
\* C25: tag_create with use_existing set on a name that is defined succeeds and
\* returns the existing handle exactly when the size and the data type equal
\* those of the existing tag and no default is requested or the existing
\* default equals the requested one, the storage class not being compared;
\* otherwise, and always without use_existing, it returns already-allocated.
\* A variable-length size with a default value returns variable-data-length and
\* defines no tag.
TagCreateUseExisting ==
    [][ret'.op = "tag_create" =>
          LET req == ret'.req
              existing == tag_get_handle(tagTable, "color")
              info == tagTable[existing]
          IN IF req.size = MB_VARIABLE_LENGTH /\ req.def # NoValue
             THEN ret'.code = MB_VARIABLE_DATA_LENGTH /\ tagTable' = tagTable
             ELSE existing # 0 =>
                     /\ tagTable' = tagTable
                     /\ ret'.code \in {MB_SUCCESS, MB_ALREADY_ALLOCATED}
                     /\ (ret'.code = MB_SUCCESS) <=>
                           /\ req.use_existing
                           /\ info.size = req.size
                           /\ info.dtype = req.dtype
                           /\ (req.def = NoValue \/ info.def = req.def)
                     /\ ret'.code = MB_SUCCESS => ret'.tag = existing]_vars

\* the tag of two values with default 1 was asked for again with use_existing
\* in the other storage class, and the call returned the existing handle
TagCreateUseExistingWitness ==
    /\ ret.op = "tag_create"
    /\ ret.code = MB_SUCCESS
    /\ ret.taken # 0
    /\ ret.tag = ret.taken
    /\ ret.req.use_existing
    /\ ret.req.size = 2
    /\ ret.req.def = 1
    /\ tagTable[ret.tag].def = 1
    /\ tagTable[ret.tag].storage # ret.req.storage
(***************************************************************************)
(* Claims about Core::load_file                                             *)
(***************************************************************************)
\* C26: when load_file on the serial path returns a code other than success,
\* the database holds no entity and no tag that did not exist before the call;
\* when it succeeds with a file set given, every entity the read created is a
\* member of that set.
FailedLoadLeavesNoResidue ==
    [][ret'.op = "load_file" =>
          LET live == RangeSet(get_entities_by_handle_root(entityMap'))
          IN /\ ret'.code # MB_SUCCESS =>
                   /\ live \subseteq ret'.initial_ents
                   /\ tag_get_tags(tagTable') \subseteq ret'.initial_tags
             /\ (ret'.code = MB_SUCCESS /\ ret'.file_set # 0) =>
                   (live \ ret'.initial_ents) \subseteq meshSets'[ret'.file_set].contents]_vars

\* when the read itself fails, clean_up_failed_read leaves the entities and
\* the tags that existed before the call, and no others
FailedReadIsCleanedUp ==
    [][(ret'.op = "load_file" /\ ret'.code \in {MB_FAILURE, MB_MEMORY_ALLOCATION_FAILED}) =>
          /\ RangeSet(get_entities_by_handle_root(entityMap')) = ret'.initial_ents
          /\ tag_get_tags(tagTable') = ret'.initial_tags]_vars
(***************************************************************************)
(* Claims about tag data and the reuse of handles                           *)
(***************************************************************************)
\* C28: when a handle deleted through delete_entities is issued again to a new
\* entity, reading any tag on the new entity before the tag is set on it gives
\* the default of the tag, or tag-not-found when it has none, never the value
\* stored for the earlier entity.
NoStaleTagData ==
    ret.op = "tag_get_data" =>
        \A n \in DOMAIN Copies : \A h \in (ret.hs \cap created) \cap DOMAIN stale :
            LET tag == tag_get_handle(tagTable, n)
            IN (tag # 0 /\ h \notin DOMAIN written[tag]) =>
                  ret.out[n][h] = ReadOfDefault(tagTable[tag].def)

\* a vertex whose handle held the value 1 of each copy when it was deleted was
\* created again and reads the default 0
NoStaleTagDataWitness ==
    /\ ret.op = "tag_get_data"
    /\ \E h \in (ret.hs \cap created) \cap DOMAIN stale :
          \A n \in DOMAIN Copies :
              LET tag == tag_get_handle(tagTable, n)
              IN /\ tag # 0
                 /\ tag \in DOMAIN stale[h]
                 /\ stale[h][tag] = 1
                 /\ h \notin DOMAIN written[tag]
                 /\ tagTable[tag].def = 0
                 /\ ret.out[n][h] = [code |-> MB_SUCCESS, out |-> 0]
(***************************************************************************)
(* Claims about Core::get_number_entities_by_type_and_tag                   *)
(***************************************************************************)
\* C29: get_number_entities_by_type_and_tag sets the number to the size of the
\* Range that get_entities_by_type_and_tag returns from an empty output Range
\* for the same set, type, tags and values, the intersect condition and the
\* same recursive flag, and returns the same code.
CountIsSizeOfQuery ==
    ret.op = "get_number_entities_by_type_and_tag" =>
        LET r == get_entities_by_type_and_tag(entityMap, tagTable, tagData, meshSets,
                     ret.q.meshset, ret.q.type, <<ColorTag>>, <<ret.q.value>>, <<>>,
                     INTERSECT, ret.q.recursive)
        IN /\ ret.code = r.code
           /\ ret.num_entities = RangeSize(r.entities)

\* for a query that is not recursive the number is the size of the Range and
\* the code is the code of the query
CountOfFlatQuery ==
    (ret.op = "get_number_entities_by_type_and_tag" /\ ~ret.q.recursive) =>
        LET r == get_entities_by_type_and_tag(entityMap, tagTable, tagData, meshSets,
                     ret.q.meshset, ret.q.type, <<ColorTag>>, <<ret.q.value>>, <<>>,
                     INTERSECT, FALSE)
        IN /\ ret.code = r.code
           /\ ret.num_entities = RangeSize(r.entities)
(***************************************************************************)
(* Claims about the links of entity sets                                    *)
(***************************************************************************)
\* the handles of the live entity sets
LiveSets == {h \in LinkSets : get_mesh_set(entityMap, h)}

DeletedSetLeavesListedSets ==
    [][ret'.op = "delete_entities" =>
          \A h \in RangeSet(ret'.range) \cap LiveSets : \A s \in DOMAIN meshSets' :
              /\ s \in meshSets[h].parents => h \notin meshSets'[s].children
              /\ s \in meshSets[h].children => h \notin meshSets'[s].parents]_vars
====
